---- MODULE Spec2Model ----
(***************************************************************************)
(* StauroX: multi-RPC consensus, configuration validation and network      *)
(* health monitoring, modelled from the Rust sources under src/src.        *)
(*                                                                         *)
(* The module holds several specifications over one set of variables:      *)
(*   SpecConsensus  rpc/client.rs + rpc/consensus.rs (slot consensus)      *)
(*   SpecConfig     config/mod.rs + service/mod.rs (validate, new)         *)
(*   SpecDetector   monitor/detector.rs (detect_health, a pure function)   *)
(*   SpecMonitor    monitor/health.rs (HealthMonitor alone)                *)
(*   SpecEngine     verification/engine.rs over the monitor and the RPCs   *)
(*   SpecParser     parsers/mod.rs + parsers/wormhole.rs (pure functions)  *)
(*   SpecScoring    finality bands, RiskScorer, is_safe (pure functions)   *)
(*   SpecFanout     rpc/client.rs, fetch_from_all_rpcs task by task         *)
(*   SpecService    service/mod.rs + api/rest.rs over engine and monitor    *)
(*   SpecProgram    staurox-program (the on-chain verification log)         *)
(*   SpecWebsocket  api/websocket.rs (the broadcast channel and sockets)    *)
(*   SpecLocks      monitor/health.rs, lock by lock (concurrent calls)       *)
(* A specification leaves the variables of the other components at their   *)
(* idle values.                                                            *)
(***************************************************************************)
EXTENDS Integers, Sequences, FiniteSets, Bags, TLC

VARIABLES
    \* ---- rpc/client.rs, rpc/consensus.rs
    clients,        \* MultiRpcClient.clients.len()
    threshold,      \* ConsensusEngine.threshold
    settled,        \* handles of the fan-out already awaited (client.rs:90)
    slots,          \* `results` of fetch_from_all_rpcs, in handle order
    slotOutcome,    \* what get_slot_with_consensus returned
    prevQuery,      \* the previous completed slot query (responses, outcome)
    \* ---- config/mod.rs, service/mod.rs
    config,         \* the Config value under construction
    builtBy,        \* the constructor call that made it, until a field is edited
    validated,      \* what config.validate() returned for the current value
    service,        \* what VerificationService::new(config) returned
    \* ---- monitor/health.rs, monitor/detector.rs
    stale_threshold_secs,   \* NetworkDetector.stale_threshold_secs
    retention_seconds,      \* HealthMonitor.retention_seconds
    observations,   \* HealthMonitor.observations: source -> SlotObservation
    health,         \* HealthMonitor.health, the cached value
    now,            \* Utc::now(), in ticks of 1/TicksPerSecond s
    lastOp,         \* the operation that ran last
    lastRet,        \* what it returned
    \* ---- verification/engine.rs
    vpc,            \* where the running verify_transaction call stands
    vSig,           \* its signature
    vHealth,        \* network_health, read at the health gate
    vTx,            \* tx, the fetched transaction
    vQueries,       \* the fan-outs the call has issued to the endpoints
    vSlot,          \* what get_slot_with_consensus returned to the finality step
    batch,          \* verify_batch: signatures left and results so far
    \* ---- pure functions: parsers, finality.rs, risk.rs, types/verification.rs
    fnCall,         \* the function called last
    fnArgs,         \* its arguments
    fnRet,          \* what it returned
    \* ---- rpc/client.rs: the tasks of one fan-out
    tasks,          \* per client, what its spawned task has done so far
    fanQuery,       \* the query that fans out, and what it returned
    \* ---- service/mod.rs, api/rest.rs, api/websocket.rs
    rest,           \* the REST request being handled and its response
    wsFeed,         \* the events sent on WsState.tx
    channel,        \* the broadcast channel behind WsState.tx
    sockets,        \* the receivers of the open handle_socket connections
    \* ---- monitor/health.rs: the calls in flight and the two RwLocks
    calls,          \* per caller, the HealthMonitor call it is in and where
    obsLock,        \* HealthMonitor.observations: holders and waiters
    healthLock,     \* HealthMonitor.health: holders and waiters
    \* ---- staurox-program: the VerificationLog account
    log,            \* the account's fields
    attested        \* the attest_verification calls so far, oldest first

rpcVars == <<clients, threshold, settled, slots, slotOutcome, prevQuery>>
cfgVars == <<config, builtBy, validated, service>>
monVars == <<stale_threshold_secs, retention_seconds, observations, health, now,
             lastOp, lastRet>>

engVars == <<vpc, vSig, vHealth, vTx, vQueries, vSlot, batch>>
fnVars == <<fnCall, fnArgs, fnRet>>
fanVars == <<tasks, fanQuery>>
svcVars == <<rest, wsFeed>>
progVars == <<log, attested>>
wsVars == <<channel, sockets>>
lockVars == <<calls, obsLock, healthLock>>

vars == <<rpcVars, cfgVars, monVars, engVars, fnVars, fanVars, svcVars, progVars,
          wsVars, lockVars>>

(***************************************************************************)
(* Bounds                                                                  *)
(***************************************************************************)
MaxClients == 3
MaxEndpoints == 4
TicksPerSecond == 2     \* resolution of the clock
MaxStaleSecs == 1       \* stale_threshold_secs ranges over 0..MaxStaleSecs
MaxObsAge == 2          \* oldest timestamp handed to detect_health, in ticks
MaxRetentionSecs == 1   \* retention_seconds ranges over 0..MaxRetentionSecs
MaxObsDelay == 1        \* ticks between SlotObservation::new and its recording
MaxTime == 4            \* the clock stops here
MaxBatch == 2           \* signatures in one verify_batch call
MaxEngineTime == 2      \* the clock stops here beside the engine
MaxSlot == 70           \* slots handed to the finality functions
MaxKeys == 2            \* account keys of a transaction
MaxInstructions == 2    \* instructions of a transaction
MaxDataLen == 56        \* longest instruction data, in bytes
MaxAttestations == 101  \* attest_verification calls on one log
MaxFailedAttestations == 1  \* of them, calls with verified = false
MaxBroadcasts == 130        \* events a sender's calls put on the channel
MaxSockets == 1             \* WebSocket connections open at a time
MaxCalls == 3               \* HealthMonitor calls in flight at a time

nonRpcVars == <<cfgVars, monVars, engVars, fnVars, fanVars, svcVars, progVars, wsVars, lockVars>>
nonCfgVars == <<rpcVars, monVars, engVars, fnVars, fanVars, svcVars, progVars, wsVars, lockVars>>
nonMonVars == <<rpcVars, cfgVars, engVars, fnVars, fanVars, svcVars, progVars, wsVars, lockVars>>
nonFnVars == <<rpcVars, cfgVars, monVars, engVars, fanVars, svcVars, progVars, wsVars, lockVars>>
\* A verification reads the monitor and the RPC client and writes lastOp,
\* lastRet; its caller may be a REST handler, which writes svcVars.
nonEngVars == <<rpcVars, cfgVars, stale_threshold_secs, retention_seconds,
                observations, health, now, fnVars, fanVars, progVars, wsVars, lockVars>>

(***************************************************************************)
(* Helpers                                                                 *)
(***************************************************************************)
Range(s) == {s[i] : i \in 1..Len(s)}

\* Number of occurrences of v in the sequence s.
Count(s, v) == Cardinality({i \in 1..Len(s) : s[i] = v})

SameMultiset(s, t) ==
    /\ Len(s) = Len(t)
    /\ \A v \in Range(s) \cup Range(t) : Count(s, v) = Count(t, v)

None == [kind |-> "none"]
Ok(v) == [kind |-> "Ok", value |-> v]

\* StauroXError::consensus_failure(responses, required)
ConsensusFailure(have, need) ==
    [kind |-> "Err", error |-> "ConsensusFailure", responses |-> have, required |-> need]

(***************************************************************************)
(* rpc/consensus.rs                                                        *)
(***************************************************************************)
\* Slot numbers the endpoints may report (values of the unit tests).
SlotValues == {100, 101, 102}

\* Thresholds a ConsensusEngine may be constructed with: new() checks nothing.
Thresholds == 0..(MaxClients + 1)

\* has_minimum_responses: Ok(()) or ConsensusFailure{len, threshold}.
HasMinimumResponses(T, responses) ==
    IF Len(responses) < T THEN ConsensusFailure(Len(responses), T) ELSE Ok("unit")

\* The entries of `counts` after the counting loop: value -> occurrences.
Counts(responses) == [v \in Range(responses) |-> Count(responses, v)]

\* min_by_key in place of max_by_key.
MinEntries(counts) ==
    {v \in DOMAIN counts : \A w \in DOMAIN counts : counts[v] <= counts[w]}

\* The entries max_by_key may return: Iterator::max_by_key returns the last
\* maximal entry of the iteration, and a HashMap with the default RandomState
\* iterates in an order that differs between maps and runs, so any entry with
\* the maximal count may be that one.
MaxEntries(counts) ==
    {v \in DOMAIN counts : \A w \in DOMAIN counts : counts[w] <= counts[v]}

\* find_consensus without its final `count < self.threshold` check.
FindConsensusNoThresholdCheck(T, responses) ==
    IF Len(responses) < T
    THEN {ConsensusFailure(Len(responses), T)}
    ELSE IF responses = <<>>
    THEN {ConsensusFailure(0, T)}
    ELSE {Ok(v) : v \in {x \in Range(responses) :
                    \A w \in Range(responses) : Count(responses, w) <= Count(responses, x)}}

\* find_consensus: the set of outcomes a call may have.
FindConsensus(T, responses) ==
    IF HasMinimumResponses(T, responses).kind = "Err"
    THEN {HasMinimumResponses(T, responses)}
    ELSE LET counts == Counts(responses)
         IN  IF DOMAIN counts = {}
             THEN {ConsensusFailure(0, T)}
             ELSE {IF counts[v] < T THEN ConsensusFailure(counts[v], T) ELSE Ok(v) :
                   v \in MaxEntries(counts)}

CfgIdle ==
    /\ config = None
    /\ builtBy = None
    /\ validated = None
    /\ service = None

\* No query has fanned out yet.
NoQuery == [query |-> "none", outcome |-> None]

\* The empty HashMap.
NoObservations == [s \in {} |-> None]

MonIdle ==
    /\ stale_threshold_secs = 0
    /\ retention_seconds = 0
    /\ observations = NoObservations
    /\ health = "Healthy"
    /\ now = 0
    /\ lastOp = "new"
    /\ lastRet = None

EngIdle ==
    /\ vpc = "idle"
    /\ vSig = None
    /\ vHealth = None
    /\ vTx = None
    /\ vQueries = <<>>
    /\ vSlot = None
    /\ batch = None

FnIdle ==
    /\ fnCall = "none"
    /\ fnArgs = None
    /\ fnRet = None

FanIdle ==
    /\ tasks = <<>>
    /\ fanQuery = NoQuery

SvcIdle ==
    /\ rest = [pc |-> "none", route |-> "none", payload |-> None, response |-> None]
    /\ wsFeed = <<>>

ProgIdle ==
    /\ log = None
    /\ attested = <<>>

\* RwLock::new(..): nobody holds the lock or waits for it.
Unlocked == [readers |-> {}, writer |-> 0, queue |-> <<>>]

\* A caller that is in no HealthMonitor call.
NoCall == [op |-> "none", pc |-> "idle"]

LockIdle ==
    /\ calls = [id \in 1..MaxCalls |-> NoCall]
    /\ obsLock = Unlocked
    /\ healthLock = Unlocked

\* WsState::new(): the channel is empty and its first receiver was dropped.
WsIdle ==
    /\ channel = [buffer |-> <<>>, tail |-> 0]
    /\ sockets = EmptyBag

(***************************************************************************)
(* rpc/client.rs: get_slot_with_consensus over fetch_from_all_rpcs         *)
(***************************************************************************)
RpcInit ==
    /\ clients \in 1..MaxClients
    /\ threshold \in Thresholds
    /\ settled = 0
    /\ slots = <<>>
    /\ slotOutcome = None
    /\ prevQuery = None

RpcIdle ==
    /\ clients = 1
    /\ threshold = 1
    /\ settled = 0
    /\ slots = <<>>
    /\ slotOutcome = None
    /\ prevQuery = None

\* handle.await yields Ok(Some((idx, result))): client.get_slot() succeeded.
HandleOk(v) ==
    /\ slotOutcome = None
    /\ settled < clients
    /\ settled' = settled + 1
    /\ slots' = Append(slots, v)
    /\ UNCHANGED <<clients, threshold, slotOutcome, prevQuery>>
    /\ UNCHANGED nonRpcVars

\* handle.await yields Ok(None) (the RPC failed) or Err (the task aborted).
HandleErr ==
    /\ slotOutcome = None
    /\ settled < clients
    /\ settled' = settled + 1
    /\ UNCHANGED <<clients, threshold, slots, slotOutcome, prevQuery>>
    /\ UNCHANGED nonRpcVars

\* All handles awaited: find_consensus(slots)?, then Ok(consensus_slot).
GetSlotWithConsensus ==
    /\ slotOutcome = None
    /\ settled = clients
    /\ slotOutcome' \in FindConsensus(threshold, slots)
    /\ UNCHANGED <<clients, threshold, settled, slots, prevQuery>>
    /\ UNCHANGED nonRpcVars

\* The next call of get_slot_with_consensus on the same client.
NextSlotQuery ==
    /\ slotOutcome # None
    /\ prevQuery' = [kind |-> "query", responses |-> slots, outcome |-> slotOutcome]
    /\ settled' = 0
    /\ slots' = <<>>
    /\ slotOutcome' = None
    /\ UNCHANGED <<clients, threshold>>
    /\ UNCHANGED nonRpcVars

InitConsensus == RpcInit /\ CfgIdle /\ MonIdle /\ EngIdle /\ FnIdle /\ FanIdle /\ SvcIdle /\ ProgIdle
        /\ WsIdle /\ LockIdle

NextConsensus ==
    \/ \E v \in SlotValues : HandleOk(v)
    \/ HandleErr
    \/ GetSlotWithConsensus
    \/ NextSlotQuery

SpecConsensus == InitConsensus /\ [][NextConsensus]_vars

(***************************************************************************)
(* rpc/client.rs: fetch_from_all_rpcs, one spawned task per client         *)
(***************************************************************************)
\* What a spawned task has done: it still runs fetch_fn, it ended with
\* Some((idx, result)), it ended with None (fetch_fn returned Err), or it
\* aborted (a panic inside the task: handle.await yields Err(JoinError)).
Running == [state |-> "running"]
Succeeded(v) == [state |-> "ok", value |-> v]
Failed == [state |-> "failed"]
Aborted == [state |-> "aborted"]

\* The collection loop pushing a placeholder for a handle without a result.
CollectedWithPlaceholder(results, task) ==
    IF task.state = "ok" THEN Append(results, task.value) ELSE Append(results, 0)

\* One pass of the collection loop (client.rs:90-95): the awaited handle's
\* result is pushed only for Ok(Some((idx, result))).
Collected(results, task) ==
    IF task.state = "ok" THEN Append(results, task.value) ELSE results

\* fetch_transaction_with_consensus that compares the results and fails when
\* the first one is not shared by at least threshold of them.
FetchTransactionRequiringAgreement(T, results) ==
    IF HasMinimumResponses(T, results).kind = "Err"
    THEN HasMinimumResponses(T, results)
    ELSE IF results = <<>>
    THEN ConsensusFailure(0, T)
    ELSE IF Count(results, results[1]) < T
    THEN ConsensusFailure(Count(results, results[1]), T)
    ELSE Ok(results[1])

\* fetch_transaction_with_consensus after the fan-out: has_minimum_responses,
\* then the first result, or consensus_failure(0, threshold) without one.
FetchTransactionWithConsensus(T, results) ==
    IF HasMinimumResponses(T, results).kind = "Err"
    THEN HasMinimumResponses(T, results)
    ELSE IF results = <<>>
    THEN ConsensusFailure(0, T)
    ELSE Ok(results[1])

\* The queries that fan out and the values one endpoint may answer with:
\* slots, or transaction contents (endpoints may differ in what they return).
FanQueries == {"get_slot", "get_transaction"}
FanValues(query) == IF query = "get_slot" THEN {100, 101} ELSE {"txA", "txB"}

\* MultiRpcClient::new(rpc_urls, consensus_threshold): nothing is checked.
FanInit ==
    /\ clients \in 1..MaxClients
    /\ threshold \in Thresholds
    /\ settled = 0
    /\ slots = <<>>
    /\ slotOutcome = None
    /\ prevQuery = None
    /\ tasks = <<>>
    /\ fanQuery = NoQuery

\* get_slot_with_consensus or fetch_transaction_with_consensus is called:
\* the loop of client.rs:71-86 spawns one task per client.
FanStart(query) ==
    /\ fanQuery = NoQuery \/ fanQuery.outcome # None
    /\ fanQuery' = [query |-> query, outcome |-> None]
    /\ tasks' = [i \in 1..clients |-> Running]
    /\ settled' = 0
    /\ slots' = <<>>
    /\ UNCHANGED <<clients, threshold, slotOutcome, prevQuery>>
    /\ UNCHANGED <<cfgVars, monVars, engVars, fnVars, svcVars, progVars, wsVars, lockVars>>

\* The task of client i ends: fetch_fn returned Ok or Err, or it panicked.
TaskSettles(i, end) ==
    /\ fanQuery # NoQuery
    /\ i \in 1..Len(tasks)
    /\ tasks[i] = Running
    /\ tasks' = [tasks EXCEPT ![i] = end]
    /\ UNCHANGED <<rpcVars, fanQuery>>
    /\ UNCHANGED <<cfgVars, monVars, engVars, fnVars, svcVars, progVars, wsVars, lockVars>>

\* handle.await under a deadline: a task still running is given up.
AwaitHandleWithDeadline ==
    /\ fanQuery # NoQuery
    /\ fanQuery.outcome = None
    /\ settled < clients
    /\ settled' = settled + 1
    /\ slots' = Collected(slots, tasks[settled + 1])
    /\ UNCHANGED <<clients, threshold, slotOutcome, prevQuery, tasks, fanQuery>>
    /\ UNCHANGED <<cfgVars, monVars, engVars, fnVars, svcVars, progVars, wsVars, lockVars>>

\* handle.await of the next handle completes once its task has ended.
AwaitHandle ==
    /\ fanQuery # NoQuery
    /\ fanQuery.outcome = None
    /\ settled < clients
    /\ tasks[settled + 1] # Running
    /\ settled' = settled + 1
    /\ slots' = Collected(slots, tasks[settled + 1])
    /\ UNCHANGED <<clients, threshold, slotOutcome, prevQuery, tasks, fanQuery>>
    /\ UNCHANGED <<cfgVars, monVars, engVars, fnVars, svcVars, progVars, wsVars, lockVars>>

\* Every handle awaited: the fan-out returns `results` and the query decides.
FanReturn ==
    /\ fanQuery # NoQuery
    /\ fanQuery.outcome = None
    /\ settled = clients
    /\ \E outcome \in IF fanQuery.query = "get_slot"
                       THEN FindConsensus(threshold, slots)
                       ELSE {FetchTransactionWithConsensus(threshold, slots)} :
          fanQuery' = [fanQuery EXCEPT !.outcome = outcome]
    /\ UNCHANGED <<rpcVars, tasks>>
    /\ UNCHANGED <<cfgVars, monVars, engVars, fnVars, svcVars, progVars, wsVars, lockVars>>

InitFanout ==
    FanInit /\ CfgIdle /\ MonIdle /\ EngIdle /\ FnIdle /\ SvcIdle /\ ProgIdle
        /\ WsIdle /\ LockIdle

NextFanout ==
    \/ \E query \in FanQueries : FanStart(query)
    \/ \E i \in 1..MaxClients :
          \E end \in {Failed, Aborted} \cup
                     (IF fanQuery = NoQuery THEN {}
                      ELSE {Succeeded(v) : v \in FanValues(fanQuery.query)}) :
             TaskSettles(i, end)
    \/ AwaitHandle
    \/ FanReturn

SpecFanout == InitFanout /\ [][NextFanout]_vars

\* The runtime keeps polling a task whose awaited handle is ready, and a
\* function whose loop has ended returns; whether an endpoint ever answers
\* is not up to the program.
SpecFanoutFair == SpecFanout /\ WF_vars(AwaitHandle) /\ WF_vars(FanReturn)

(***************************************************************************)
(* config/mod.rs                                                           *)
(***************************************************************************)
Networks == {"Mainnet", "Devnet"}

\* Network::default_endpoints
DefaultEndpoints(network) ==
    IF network = "Mainnet"
    THEN << "https://api.mainnet-beta.solana.com", "https://rpc.ankr.com/solana",
            "https://solana-api.projectserum.com", "https://solana.publicnode.com" >>
    ELSE << "https://api.devnet.solana.com", "https://rpc-devnet.helius.xyz",
            "https://devnet.rpcpool.com", "https://api.devnet.solana.com" >>

\* StauroXError::config(msg)
ConfigError(msg) == [kind |-> "Err", error |-> "Config", message |-> msg]

\* Config::devnet
Devnet ==
    [network |-> "Devnet",
     rpc |-> [endpoints |-> DefaultEndpoints("Devnet"), consensus_threshold |-> 3,
              request_timeout_ms |-> 5000],
     monitoring |-> [health_check_interval_ms |-> 400, slot_retention_seconds |-> 30,
                     stale_threshold_seconds |-> 5],
     api |-> [websocket_port |-> 8080, rest_port |-> 8081]]

\* Config::mainnet
Mainnet ==
    [network |-> "Mainnet",
     rpc |-> [endpoints |-> DefaultEndpoints("Mainnet"), consensus_threshold |-> 3,
              request_timeout_ms |-> 5000],
     monitoring |-> [health_check_interval_ms |-> 400, slot_retention_seconds |-> 30,
                     stale_threshold_seconds |-> 5],
     api |-> [websocket_port |-> 8080, rest_port |-> 8081]]

\* Config::custom
Custom(network, endpoints) ==
    LET base == IF network = "Mainnet" THEN Mainnet ELSE Devnet
    IN  [base EXCEPT !.rpc.endpoints = endpoints]

\* validate without the `consensus_threshold > endpoints.len()` check.
ValidateWithoutUpperBound(cfg) ==
    IF Len(cfg.rpc.endpoints) = 0
    THEN ConfigError("At least one RPC endpoint required")
    ELSE IF cfg.rpc.consensus_threshold = 0
    THEN ConfigError("Consensus threshold must be > 0")
    ELSE IF cfg.monitoring.health_check_interval_ms = 0
    THEN ConfigError("Health check interval must be > 0")
    ELSE Ok("unit")

\* Config::validate: the four checks in source order.
Validate(cfg) ==
    IF Len(cfg.rpc.endpoints) = 0
    THEN ConfigError("At least one RPC endpoint required")
    ELSE IF cfg.rpc.consensus_threshold = 0
    THEN ConfigError("Consensus threshold must be > 0")
    ELSE IF cfg.rpc.consensus_threshold > Len(cfg.rpc.endpoints)
    THEN ConfigError("Consensus threshold exceeds number of endpoints")
    ELSE IF cfg.monitoring.health_check_interval_ms = 0
    THEN ConfigError("Health check interval must be > 0")
    ELSE Ok("unit")

\* VerificationService::new: validate()?, then the monitor, the RPC client
\* (one client per endpoint, ConsensusEngine::new(threshold, clients.len()))
\* and the engine are built from the configuration.
ServiceNew(cfg) ==
    IF Validate(cfg).kind = "Err"
    THEN Validate(cfg)
    ELSE [kind |-> "Ok",
          client_count |-> Len(cfg.rpc.endpoints),
          consensus_threshold |-> cfg.rpc.consensus_threshold,
          stale_threshold_secs |-> cfg.monitoring.stale_threshold_seconds,
          retention_seconds |-> cfg.monitoring.slot_retention_seconds,
          health |-> "Healthy"]

\* Endpoint lists a caller may pass or set.
CustomUrls == {"https://custom.rpc", "https://other.rpc"}

RECURSIVE SeqsUpTo(_, _)
SeqsUpTo(S, n) ==
    IF n = 0 THEN {<<>>}
    ELSE LET shorter == SeqsUpTo(S, n - 1)
         IN  shorter \cup {Append(s, x) : s \in shorter, x \in S}

EndpointLists == SeqsUpTo(CustomUrls, MaxEndpoints)

\* Values the public fields may be set to (or deserialized with).
ThresholdChoices == 0..(MaxEndpoints + 1)
IntervalChoices == {0, 400}

CfgInit ==
    /\ config = None
    /\ builtBy = None
    /\ validated = None
    /\ service = None

\* let config = Config::devnet() (also Config::default()).
ConfigDevnet ==
    /\ service = None
    /\ config' = Devnet
    /\ builtBy' = [kind |-> "devnet"]
    /\ validated' = None
    /\ UNCHANGED service
    /\ UNCHANGED nonCfgVars

\* let config = Config::mainnet().
ConfigMainnet ==
    /\ service = None
    /\ config' = Mainnet
    /\ builtBy' = [kind |-> "mainnet"]
    /\ validated' = None
    /\ UNCHANGED service
    /\ UNCHANGED nonCfgVars

\* let config = Config::custom(network, endpoints).
ConfigCustom(network, endpoints) ==
    /\ service = None
    /\ config' = Custom(network, endpoints)
    /\ builtBy' = [kind |-> "custom", network |-> network, endpoints |-> endpoints]
    /\ validated' = None
    /\ UNCHANGED service
    /\ UNCHANGED nonCfgVars

\* config.rpc.endpoints = ...: the fields are public (and deserializable).
SetEndpoints(endpoints) ==
    /\ service = None
    /\ config # None
    /\ config' = [config EXCEPT !.rpc.endpoints = endpoints]
    /\ builtBy' = [kind |-> "edited"]
    /\ validated' = None
    /\ UNCHANGED service
    /\ UNCHANGED nonCfgVars

\* config.rpc.consensus_threshold = ...
SetThreshold(t) ==
    /\ service = None
    /\ config # None
    /\ config' = [config EXCEPT !.rpc.consensus_threshold = t]
    /\ builtBy' = [kind |-> "edited"]
    /\ validated' = None
    /\ UNCHANGED service
    /\ UNCHANGED nonCfgVars

\* config.monitoring.health_check_interval_ms = ...
SetInterval(ms) ==
    /\ service = None
    /\ config # None
    /\ config' = [config EXCEPT !.monitoring.health_check_interval_ms = ms]
    /\ builtBy' = [kind |-> "edited"]
    /\ validated' = None
    /\ UNCHANGED service
    /\ UNCHANGED nonCfgVars

\* config.validate()
CallValidate ==
    /\ service = None
    /\ config # None
    /\ validated' = Validate(config)
    /\ UNCHANGED <<config, builtBy, service>>
    /\ UNCHANGED nonCfgVars

\* VerificationService::new(config): the configuration is moved into the
\* service, so it is not edited afterwards.
CallServiceNew ==
    /\ service = None
    /\ config # None
    /\ service' = ServiceNew(config)
    /\ UNCHANGED <<config, builtBy, validated>>
    /\ UNCHANGED nonCfgVars

InitConfig == CfgInit /\ RpcIdle /\ MonIdle /\ EngIdle /\ FnIdle /\ FanIdle /\ SvcIdle /\ ProgIdle
        /\ WsIdle /\ LockIdle

NextConfig ==
    \/ ConfigDevnet
    \/ ConfigMainnet
    \/ \E n \in Networks, e \in EndpointLists : ConfigCustom(n, e)
    \/ \E e \in EndpointLists : SetEndpoints(e)
    \/ \E t \in ThresholdChoices : SetThreshold(t)
    \/ \E ms \in IntervalChoices : SetInterval(ms)
    \/ CallValidate
    \/ CallServiceNew

SpecConfig == InitConfig /\ [][NextConfig]_vars

(***************************************************************************)
(* types/network.rs, monitor/detector.rs                                   *)
(***************************************************************************)
FORK_SUPPORT_THRESHOLD == 30
HEALTHY_LAG_TOLERANCE == 2

\* Duration::num_seconds: whole seconds, the fraction dropped.
NumSeconds(ticks) == ticks \div TicksPerSecond

\* SlotObservation::age_seconds at time t.
AgeSeconds(obs, t) == NumSeconds(t - obs.timestamp)

\* SlotObservation::is_stale
IsStale(obs, threshold_secs, t) == AgeSeconds(obs, t) > threshold_secs

\* any() in place of all().
AnyObservationStale(obs, threshold_secs, t) ==
    \E s \in DOMAIN obs : IsStale(obs[s], threshold_secs, t)

\* NetworkDetector::all_observations_stale
AllObservationsStale(obs, threshold_secs, t) ==
    \A s \in DOMAIN obs : IsStale(obs[s], threshold_secs, t)

\* NetworkDetector::group_by_slot: slot -> number of sources reporting it.
GroupBySlot(obs) ==
    [slot \in {obs[s].slot : s \in DOMAIN obs} |->
        Cardinality({s \in DOMAIN obs : obs[s].slot = slot})]

SetMin(S) == CHOOSE x \in S : \A y \in S : x <= y
SetMax(S) == CHOOSE x \in S : \A y \in S : y <= x

\* `<` in place of `<=` in the lag comparison.
WithinHealthyToleranceStrict(slot_groups) ==
    IF Cardinality(DOMAIN slot_groups) <= 1
    THEN TRUE
    ELSE SetMax(DOMAIN slot_groups) - SetMin(DOMAIN slot_groups) < HEALTHY_LAG_TOLERANCE

\* NetworkDetector::within_healthy_tolerance
WithinHealthyTolerance(slot_groups) ==
    IF Cardinality(DOMAIN slot_groups) <= 1
    THEN TRUE
    ELSE SetMax(DOMAIN slot_groups) - SetMin(DOMAIN slot_groups) <= HEALTHY_LAG_TOLERANCE

\* NetworkDetector::has_significant_fork. support_percent > 30.0 is
\* (sources / total_sources) * 100.0 > 30.0 in f64; for the source counts of
\* the model this is the exact comparison sources * 100 > 30 * total_sources.
HasSignificantFork(obs) ==
    LET slot_groups == GroupBySlot(obs)
        total_sources == Cardinality(DOMAIN obs)
        significant_forks ==
            Cardinality({slot \in DOMAIN slot_groups :
                slot_groups[slot] * 100 > FORK_SUPPORT_THRESHOLD * total_sources})
    IN  IF WithinHealthyTolerance(slot_groups)
        THEN FALSE
        ELSE significant_forks > 1

\* NetworkDetector::detect_health
DetectHealth(obs, threshold_secs, t) ==
    IF DOMAIN obs = {} THEN "Halted"
    ELSE IF AllObservationsStale(obs, threshold_secs, t) THEN "Halted"
    ELSE IF HasSignificantFork(obs) THEN "Forked"
    ELSE "Healthy"

\* The sources and slots of the detector's unit tests, with a slot in between.
DetSources == {"rpc0", "rpc1", "rpc2", "rpc3"}
DetSlots == {100, 102, 105}

\* SlotObservation { slot, source, timestamp, .. }
SlotObservation(slot, source, timestamp) ==
    [slot |-> slot, source |-> source, timestamp |-> timestamp]

DetInit ==
    /\ stale_threshold_secs \in 0..MaxStaleSecs
    /\ retention_seconds = 0
    /\ observations = NoObservations
    /\ health = "Healthy"
    /\ now = MaxObsAge
    /\ lastOp = "new"
    /\ lastRet = None

\* obs.insert(source, observation): HashMap::insert replaces the entry.
Insert(map, key, value) ==
    [k \in DOMAIN map \cup {key} |-> IF k = key THEN value ELSE map[k]]

\* A caller builds the map handed to detect_health, as the unit tests do.
InsertObservation(obs) ==
    /\ observations' = Insert(observations, obs.source, obs)
    /\ lastOp' = "insert"
    /\ lastRet' = None
    /\ UNCHANGED <<stale_threshold_secs, retention_seconds, health, now>>
    /\ UNCHANGED nonMonVars

\* detector.detect_health(&obs)
CallDetectHealth ==
    /\ lastOp' = "detect_health"
    /\ lastRet' = DetectHealth(observations, stale_threshold_secs, now)
    /\ UNCHANGED <<stale_threshold_secs, retention_seconds, observations, health, now>>
    /\ UNCHANGED nonMonVars

InitDetector == DetInit /\ RpcIdle /\ CfgIdle /\ EngIdle /\ FnIdle /\ FanIdle /\ SvcIdle /\ ProgIdle
        /\ WsIdle /\ LockIdle

NextDetector ==
    \/ \E source \in DetSources, slot \in DetSlots, age \in 0..MaxObsAge :
          InsertObservation(SlotObservation(slot, source, now - age))
    \/ CallDetectHealth

SpecDetector == InitDetector /\ [][NextDetector]_vars

(***************************************************************************)
(* monitor/health.rs                                                       *)
(***************************************************************************)
\* retain(timestamp >= cutoff) in place of retain(timestamp > cutoff).
CleanupKeepingCutoff(obs, retention_secs, t) ==
    LET cutoff == t - retention_secs * TicksPerSecond
    IN  [s \in {k \in DOMAIN obs : obs[k].timestamp >= cutoff} |-> obs[s]]

\* HealthMonitor::cleanup_old_observations:
\* cutoff = now - retention_seconds; retain(timestamp > cutoff).
CleanupOldObservations(obs, retention_secs, t) ==
    LET cutoff == t - retention_secs * TicksPerSecond
    IN  [s \in {k \in DOMAIN obs : obs[k].timestamp > cutoff} |-> obs[s]]

\* The map after record_observation(obs) at time t.
Recorded(map, obs, retention_secs, t) ==
    CleanupOldObservations(Insert(map, obs.source, obs), retention_secs, t)

\* The sources and slots recorded in the monitor: the polling task records
\* under "consensus", any other caller under a name of its own.
MonSources == {"consensus", "rpc1"}
MonSlots == {100, 105}

\* HealthMonitor::new(stale_threshold_secs, retention_seconds)
MonInit ==
    /\ stale_threshold_secs \in 0..MaxStaleSecs
    /\ retention_seconds \in 0..MaxRetentionSecs
    /\ observations = NoObservations
    /\ health = "Healthy"
    /\ now = 0
    /\ lastOp = "new"
    /\ lastRet = None

\* record_observation that also recomputes and stores the health.
RecordObservationRefreshingHealth(obs) ==
    /\ observations' = Recorded(observations, obs, retention_seconds, now)
    /\ health' = DetectHealth(observations', stale_threshold_secs, now)
    /\ lastOp' = "record_observation"
    /\ lastRet' = None
    /\ UNCHANGED <<stale_threshold_secs, retention_seconds, now>>
    /\ UNCHANGED nonMonVars

\* HealthMonitor::record_observation
RecordObservation(obs) ==
    /\ observations' = Recorded(observations, obs, retention_seconds, now)
    /\ lastOp' = "record_observation"
    /\ lastRet' = None
    /\ UNCHANGED <<stale_threshold_secs, retention_seconds, health, now>>
    /\ UNCHANGED nonMonVars

\* check_health without the early return: Halted is cached for an empty map.
CheckHealthCachingEmptyMap ==
    /\ lastOp' = "check_health"
    /\ health' = DetectHealth(observations, stale_threshold_secs, now)
    /\ lastRet' = health'
    /\ UNCHANGED <<stale_threshold_secs, retention_seconds, observations, now>>
    /\ UNCHANGED nonMonVars

\* HealthMonitor::check_health: the early return on an empty map comes
\* before the cached value is written.
CheckHealth ==
    /\ lastOp' = "check_health"
    /\ IF DOMAIN observations = {}
       THEN /\ lastRet' = "Halted"
            /\ UNCHANGED health
       ELSE /\ health' = DetectHealth(observations, stale_threshold_secs, now)
            /\ lastRet' = health'
    /\ UNCHANGED <<stale_threshold_secs, retention_seconds, observations, now>>
    /\ UNCHANGED nonMonVars

\* HealthMonitor::get_health
GetHealth ==
    /\ lastOp' = "get_health"
    /\ lastRet' = health
    /\ UNCHANGED <<stale_threshold_secs, retention_seconds, observations, health, now>>
    /\ UNCHANGED nonMonVars

\* HealthMonitor::get_observations
GetObservations ==
    /\ lastOp' = "get_observations"
    /\ lastRet' = observations
    /\ UNCHANGED <<stale_threshold_secs, retention_seconds, observations, health, now>>
    /\ UNCHANGED nonMonVars

\* Time passes.
Tick ==
    /\ now < MaxTime
    /\ now' = now + 1
    /\ lastOp' = "tick"
    /\ lastRet' = None
    /\ UNCHANGED <<stale_threshold_secs, retention_seconds, observations, health>>
    /\ UNCHANGED nonMonVars

\* Observations a caller may record at time t: made by SlotObservation::new
\* at most MaxObsDelay ticks earlier.
ObsInputs(t) ==
    {SlotObservation(slot, source, t - d) :
        slot \in MonSlots, source \in MonSources,
        d \in {x \in 0..MaxObsDelay : x <= t}}

\* StauroXError::verification(msg)
VerificationError(msg) == [kind |-> "Err", error |-> "Verification", message |-> msg]

(***************************************************************************)
(* parsers/mod.rs, parsers/wormhole.rs                                     *)
(***************************************************************************)
WORMHOLE_TOKEN_BRIDGE == "wormDTUJ6AWPNvk59vGQbDvGJmqbDTdgWgAqcLBCgUb"
WORMHOLE_CORE == "worm2ZoG2kUd4vFXhvjh93UUH596ayRfgQ2MgjNMTth"
SYSTEM_PROGRAM == "11111111111111111111111111111111"

\* Instruction discriminators
TRANSFER_NATIVE == 1
ATTEST_TOKEN == 2
COMPLETE_TRANSFER == 3
TRANSFER_WRAPPED == 4
TRANSFER_TOKENS_WITH_PAYLOAD == 5
COMPLETE_TRANSFER_NATIVE == 7
CREATE_WRAPPED == 9
COMPLETE_WRAPPED == 10
COMPLETE_TRANSFER_WITH_PAYLOAD == 13

\* A thread that indexes outside a slice panics: no value is returned.
Panic(msg) == [kind |-> "Panic", message |-> msg]

\* BridgeInstruction::Unknown
Unknown == [kind |-> "Unknown"]

\* The text of an instruction's data: the base58 encoding of `bytes`, or a
\* text with a character outside the base58 alphabet.
Bs58Text(bytes) == [text |-> "base58", bytes |-> bytes]
Bs58Invalid == [text |-> "invalid"]

\* bs58::decode(text).into_vec()
Bs58Decode(text) ==
    IF text.text = "base58" THEN Ok(text.bytes) ELSE [kind |-> "Err", error |-> "bs58"]

\* u64::from_le_bytes: the value as a base-256 numeral, most significant
\* digit first (the values exceed the integers TLC computes with).
U64FromLeBytes(b) == [j \in 1..8 |-> b[9 - j]]

\* u16::from_le_bytes
U16FromLeBytes(b) == b[1] + 256 * b[2]

\* parse_transfer_instruction taking `amount` from the bytes of `_fee`.
ParseTransferInstructionReadingFee(discriminator, data) ==
    IF Len(data) < 55
    THEN Ok(Unknown)
    ELSE LET amount == U64FromLeBytes(SubSeq(data, 14, 21))
             recipient == SubSeq(data, 22, 53)
             target_chain == U16FromLeBytes(SubSeq(data, 54, 55))
         IN  Ok(CASE discriminator = TRANSFER_WRAPPED ->
                       [kind |-> "TransferWrapped", amount |-> amount,
                        target_chain |-> target_chain, recipient |-> recipient]
                  [] discriminator = TRANSFER_NATIVE ->
                       [kind |-> "TransferNative", amount |-> amount,
                        target_chain |-> target_chain, recipient |-> recipient]
                  [] discriminator = TRANSFER_TOKENS_WITH_PAYLOAD ->
                       [kind |-> "TransferWithPayload", amount |-> amount,
                        target_chain |-> target_chain]
                  [] OTHER -> Unknown)

\* parse_transfer_instruction: data[i] of the source is data[i + 1] here.
ParseTransferInstruction(discriminator, data) ==
    IF Len(data) < 55
    THEN Ok(Unknown)
    ELSE LET amount == U64FromLeBytes(SubSeq(data, 6, 13))
             recipient == SubSeq(data, 22, 53)
             target_chain == U16FromLeBytes(SubSeq(data, 54, 55))
         IN  Ok(CASE discriminator = TRANSFER_WRAPPED ->
                       [kind |-> "TransferWrapped", amount |-> amount,
                        target_chain |-> target_chain, recipient |-> recipient]
                  [] discriminator = TRANSFER_NATIVE ->
                       [kind |-> "TransferNative", amount |-> amount,
                        target_chain |-> target_chain, recipient |-> recipient]
                  [] discriminator = TRANSFER_TOKENS_WITH_PAYLOAD ->
                       [kind |-> "TransferWithPayload", amount |-> amount,
                        target_chain |-> target_chain]
                  [] OTHER -> Unknown)

\* parse_attest_token
ParseAttestToken == Ok([kind |-> "AttestToken"])

\* parse_complete_transfer with is_native taken from the wrong discriminator.
ParseCompleteTransferSwapped(discriminator) ==
    Ok([kind |-> "CompleteTransfer", vaa_hash |-> <<>>,
        is_native |-> (discriminator = COMPLETE_TRANSFER)])

\* parse_complete_transfer
ParseCompleteTransfer(discriminator) ==
    Ok([kind |-> "CompleteTransfer", vaa_hash |-> <<>>,
        is_native |-> (discriminator = COMPLETE_TRANSFER_NATIVE)])

\* parse_wrapped_token_instruction
ParseWrappedTokenInstruction(discriminator) ==
    Ok([kind |-> "WrappedTokenOperation",
        operation_type |-> IF discriminator = CREATE_WRAPPED
                           THEN "CreateWrapped" ELSE "CompleteWrapped"])

\* parse_complete_transfer_with_payload
ParseCompleteTransferWithPayload(data) == Ok([kind |-> "CompleteTransferWithPayload"])

\* The `match discriminator` of parse_wormhole_instruction.
Dispatch(data) ==
    LET discriminator == data[1]
    IN  CASE discriminator \in {TRANSFER_NATIVE, TRANSFER_WRAPPED,
                                TRANSFER_TOKENS_WITH_PAYLOAD} ->
                 ParseTransferInstruction(discriminator, data)
          [] discriminator = ATTEST_TOKEN -> ParseAttestToken
          [] discriminator \in {COMPLETE_TRANSFER, COMPLETE_TRANSFER_NATIVE} ->
                 ParseCompleteTransfer(discriminator)
          [] discriminator \in {CREATE_WRAPPED, COMPLETE_WRAPPED} ->
                 ParseWrappedTokenInstruction(discriminator)
          [] discriminator = COMPLETE_TRANSFER_WITH_PAYLOAD ->
                 ParseCompleteTransferWithPayload(data)
          [] OTHER -> Ok(Unknown)

\* The instruction loop of parse_wormhole_instruction from instruction i on:
\* account_keys[ix.program_id_index as usize] panics outside the list; an
\* instruction of another program, one whose data does not decode and one
\* with empty data are skipped (`continue`); the first other one decides.
RECURSIVE ScanInstructions(_, _, _)
ScanInstructions(account_keys, instructions, i) ==
    IF i > Len(instructions)
    THEN Ok(Unknown)
    ELSE LET ix == instructions[i]
         IN  IF ix.program_id_index >= Len(account_keys)
             THEN Panic("index out of bounds")
             ELSE IF account_keys[ix.program_id_index + 1] # WORMHOLE_TOKEN_BRIDGE
             THEN ScanInstructions(account_keys, instructions, i + 1)
             ELSE LET decoded == Bs58Decode(ix.data)
                  IN  IF decoded.kind = "Err"
                      THEN ScanInstructions(account_keys, instructions, i + 1)
                      ELSE IF decoded.value = <<>>
                      THEN ScanInstructions(account_keys, instructions, i + 1)
                      ELSE Dispatch(decoded.value)

\* parse_wormhole_instruction(tx)
ParseWormholeInstruction(tx) ==
    CASE tx.message = "Parsed" -> VerificationError("Parsed message not supported")
      [] tx.message = "Raw" -> ScanInstructions(tx.account_keys, tx.instructions, 1)
      [] OTHER -> VerificationError("Unsupported transaction encoding")

\* Pubkey::from_str(key).is_ok()
IsPubkey(key) == key \in {WORMHOLE_TOKEN_BRIDGE, WORMHOLE_CORE, SYSTEM_PROGRAM}

\* extract_program_ids
ExtractProgramIds(tx) ==
    CASE tx.message = "Parsed" -> VerificationError("Parsed message format not supported")
      [] tx.message = "Raw" -> Ok(SelectSeq(tx.account_keys, IsPubkey))
      [] OTHER -> VerificationError("Unsupported transaction encoding - expected JSON")

\* detect_bridge_type: Some(Wormhole) or None.
DetectBridgeType(program_ids) ==
    IF \E i \in 1..Len(program_ids) :
          program_ids[i] \in {WORMHOLE_TOKEN_BRIDGE, WORMHOLE_CORE}
    THEN "Wormhole" ELSE "None"

\* TransactionParser::parse_transaction
ParseTransaction(tx) ==
    LET program_ids == ExtractProgramIds(tx)
    IN  IF program_ids.kind = "Err"
        THEN program_ids
        ELSE IF DetectBridgeType(program_ids.value) = "None"
        THEN Ok("None")
        ELSE LET instruction == ParseWormholeInstruction(tx)
             IN  IF instruction.kind = "Ok"
                 THEN Ok([bridge_type |-> "Wormhole", instruction |-> instruction.value])
                 ELSE instruction

\* ---- inputs
\* Account keys and the instructions' program indices.
Keys == {WORMHOLE_TOKEN_BRIDGE, WORMHOLE_CORE, SYSTEM_PROGRAM}
KeyLists == SeqsUpTo(Keys, MaxKeys)
ScanKeyLists == {<<WORMHOLE_TOKEN_BRIDGE>>, <<SYSTEM_PROGRAM, WORMHOLE_TOKEN_BRIDGE>>}
ProgramIndices == 0..MaxKeys

\* Instruction data of `len` bytes: the discriminator, then bytes that
\* differ from place to place.
DataBytes(opcode, len, step) ==
    [i \in 1..len |-> IF i = 1 THEN opcode ELSE (step * i) % 256]

Opcodes == (0..14) \cup {255}
DataLengths == {1, 2, 54, 55, MaxDataLen}
DataSteps == {3, 37}

\* Data for a transaction of one instruction.
SingleData ==
    {Bs58Invalid, Bs58Text(<<>>)} \cup
    {Bs58Text(DataBytes(opcode, len, step)) :
        opcode \in Opcodes, len \in DataLengths, step \in DataSteps}

\* Data for a transaction of several instructions.
ScanData ==
    {Bs58Invalid, Bs58Text(<<>>),
     Bs58Text(<<ATTEST_TOKEN>>),
     Bs58Text(DataBytes(TRANSFER_NATIVE, 54, 3)),
     Bs58Text(<<COMPLETE_TRANSFER_NATIVE>>)}

RawTx(account_keys, instructions) ==
    [message |-> "Raw", account_keys |-> account_keys, instructions |-> instructions]

Instructions(indices, datas) ==
    [program_id_index : indices, data : datas]

ParserInputs ==
    {[message |-> "Parsed"], [message |-> "Binary"]}
    \cup {RawTx(keys, <<ix>>) :
            keys \in KeyLists, ix \in Instructions(ProgramIndices, SingleData)}
    \cup {RawTx(keys, ixs) :
            keys \in ScanKeyLists,
            ixs \in SeqsUpTo(Instructions(ProgramIndices, ScanData), MaxInstructions)}

\* The transaction handed to the parser.
ParserInit ==
    /\ fnCall = "none"
    /\ fnArgs \in ParserInputs
    /\ fnRet = None

CallParseWormholeInstruction ==
    /\ fnCall = "none"
    /\ fnCall' = "parse_wormhole_instruction"
    /\ fnRet' = ParseWormholeInstruction(fnArgs)
    /\ UNCHANGED fnArgs
    /\ UNCHANGED nonFnVars

CallParseTransaction ==
    /\ fnCall = "none"
    /\ fnCall' = "parse_transaction"
    /\ fnRet' = ParseTransaction(fnArgs)
    /\ UNCHANGED fnArgs
    /\ UNCHANGED nonFnVars

InitParser == ParserInit /\ RpcIdle /\ CfgIdle /\ MonIdle /\ EngIdle /\ FanIdle /\ SvcIdle /\ ProgIdle
        /\ WsIdle /\ LockIdle

NextParser ==
    \/ CallParseWormholeInstruction
    \/ CallParseTransaction

SpecParser == InitParser /\ [][NextParser]_vars

(***************************************************************************)
(* verification/engine.rs, verification/risk.rs                            *)
(***************************************************************************)

\* FinalityLevel derives Ord: Fast < Safe < UltraSafe.
FinalityLevels == {"Fast", "Safe", "UltraSafe"}
FinalityRank(level) ==
    CASE level = "Fast" -> 0
      [] level = "Safe" -> 1
      [] level = "UltraSafe" -> 2

\* The bands of determine_finality_level with `<` where the source has `<=`.
FinalityOfExclusiveBands(current_slot, tx_slot) ==
    LET slot_age == IF current_slot >= tx_slot THEN current_slot - tx_slot ELSE 0
    IN  IF slot_age < 31 THEN "Fast"
        ELSE IF slot_age < 63 THEN "Safe"
        ELSE "UltraSafe"

\* determine_finality_level: the bands of slot_age = current.saturating_sub(tx).
FinalityOf(current_slot, tx_slot) ==
    LET slot_age == IF current_slot >= tx_slot THEN current_slot - tx_slot ELSE 0
    IN  IF slot_age <= 31 THEN "Fast"
        ELSE IF slot_age <= 63 THEN "Safe"
        ELSE "UltraSafe"

\* FinalityChecker::check_finality: the same bands over `confirmations`.
CheckFinality(current_slot, slot) ==
    LET confirmations == IF current_slot >= slot THEN current_slot - slot ELSE 0
    IN  IF confirmations <= 31 THEN "Fast"
        ELSE IF confirmations <= 63 THEN "Safe"
        ELSE "UltraSafe"

\* ---- f64 values: a finite number in millionths, an infinity or NaN.
Num(millionths) == [f64 |-> "num", millionths |-> millionths]
Inf(sign) == [f64 |-> "inf", sign |-> sign]
NaN == [f64 |-> "nan"]

\* 1.0 - x
OneMinus(x) ==
    CASE x.f64 = "nan" -> NaN
      [] x.f64 = "inf" -> Inf(0 - x.sign)
      [] OTHER -> Num(1000000 - x.millionths)

\* x * 0.2
TimesPointTwo(x) ==
    CASE x.f64 = "num" -> Num(x.millionths \div 5)
      [] OTHER -> x

\* a + x for a finite a
Plus(a, x) ==
    CASE x.f64 = "num" -> Num(a.millionths + x.millionths)
      [] OTHER -> x

\* f64::clamp(0.0, 1.0): NaN stays NaN.
Clamp01(x) ==
    CASE x.f64 = "nan" -> NaN
      [] x.f64 = "inf" -> IF x.sign > 0 THEN Num(1000000) ELSE Num(0)
      [] OTHER -> IF x.millionths < 0 THEN Num(0)
                  ELSE IF x.millionths > 1000000 THEN Num(1000000)
                  ELSE x

\* x < bound for a finite bound in millionths: false for NaN.
LessThan(x, bound) ==
    CASE x.f64 = "nan" -> FALSE
      [] x.f64 = "inf" -> x.sign < 0
      [] OTHER -> x.millionths < bound

\* calculate_consensus_ratio: consensus_count as f64 / total_rpcs as f64,
\* to the millionth.
CalculateConsensusRatio(consensus_count, total_rpcs) ==
    IF total_rpcs = 0
    THEN IF consensus_count = 0 THEN NaN ELSE Inf(1)
    ELSE Num((consensus_count * 1000000) \div total_rpcs)

\* RiskScorer::calculate_risk
CalculateRisk(finality, network_health, consensus_ratio) ==
    LET finality_risk == CASE finality = "UltraSafe" -> 10000
                           [] finality = "Safe" -> 50000
                           [] OTHER -> 150000
        health_risk == CASE network_health = "Healthy" -> 0
                         [] network_health = "Forked" -> 300000
                         [] OTHER -> 500000
        consensus_risk == OneMinus(consensus_ratio)
        risk == Plus(Num(finality_risk + health_risk), TimesPointTwo(consensus_risk))
    IN  Clamp01(risk)

\* VerificationResult::with_risk_score stores score.clamp(0.0, 1.0).
WithRiskScore(score) == Clamp01(score)

\* The success result built with the health the cache holds at that time.
SuccessResultWithCachedHealth(sig, slot, finality, network_health, risk_score, consensus_count) ==
    [kind |-> "Ok", signature |-> sig, slot |-> slot, verified |-> TRUE,
     finality_level |-> finality, network_health |-> health,
     risk_score |-> WithRiskScore(risk_score), consensus_count |-> consensus_count]

\* The VerificationResult of the success path (engine.rs:103-109).
SuccessResult(sig, slot, finality, network_health, risk_score, consensus_count) ==
    [kind |-> "Ok", signature |-> sig, slot |-> slot, verified |-> TRUE,
     finality_level |-> finality, network_health |-> network_health,
     risk_score |-> WithRiskScore(risk_score), consensus_count |-> consensus_count]

\* build_failed_verification_result
FailedResult(sig, slot, network_health) ==
    [kind |-> "Ok", signature |-> sig, slot |-> slot, verified |-> FALSE,
     finality_level |-> "Fast", network_health |-> network_health,
     risk_score |-> WithRiskScore(Num(1000000)), consensus_count |-> 0]

\* NetworkHealth::is_operational
IsOperational(network_health) == network_health = "Healthy"

\* is_safe without the finality condition.
IsSafeIgnoringFinality(result) ==
    /\ result.verified
    /\ IsOperational(result.network_health)
    /\ LessThan(result.risk_score, 200000)

\* VerificationResult::is_safe
IsSafe(result) ==
    /\ result.verified
    /\ IsOperational(result.network_health)
    /\ LessThan(result.risk_score, 200000)
    /\ FinalityRank(result.finality_level) >= FinalityRank("Safe")

\* ---- inputs of the scoring functions
Slots == 0..MaxSlot
HealthValues == {"Healthy", "Forked", "Halted"}

\* consensus_ratio: inside and outside [0, 1], the infinities and NaN.
Ratios ==
    {Num(r) : r \in {-1000000, 0, 250000, 500000, 750000, 1000000, 2000000, 9000000}}
    \cup {Inf(1), Inf(0 - 1), NaN}

\* risk_score of a VerificationResult.
RiskScores == {Num(r) : r \in {0, 50000, 199999, 200000, 200001, 1000000}} \cup {NaN}

ScoringInputs ==
    {[of |-> "finality", current_slot |-> c, tx_slot |-> t] : c \in Slots, t \in Slots}
    \cup {[of |-> "calculate_risk", finality |-> f, network_health |-> h,
           consensus_ratio |-> r] :
            f \in FinalityLevels, h \in HealthValues, r \in Ratios}
    \cup {[of |-> "is_safe",
           result |-> [kind |-> "Ok", signature |-> "sigA", slot |-> 40,
                       verified |-> v, finality_level |-> f, network_health |-> h,
                       risk_score |-> r, consensus_count |-> 1]] :
            v \in BOOLEAN, f \in FinalityLevels, h \in HealthValues, r \in RiskScores}

ScoringInit ==
    /\ fnCall = "none"
    /\ fnArgs \in ScoringInputs
    /\ fnRet = None

CallDetermineFinalityLevel ==
    /\ fnCall = "none"
    /\ fnArgs.of = "finality"
    /\ fnCall' = "determine_finality_level"
    /\ fnRet' = FinalityOf(fnArgs.current_slot, fnArgs.tx_slot)
    /\ UNCHANGED fnArgs
    /\ UNCHANGED nonFnVars

CallCheckFinality ==
    /\ fnCall = "none"
    /\ fnArgs.of = "finality"
    /\ fnCall' = "check_finality"
    /\ fnRet' = CheckFinality(fnArgs.current_slot, fnArgs.tx_slot)
    /\ UNCHANGED fnArgs
    /\ UNCHANGED nonFnVars

CallCalculateRisk ==
    /\ fnCall = "none"
    /\ fnArgs.of = "calculate_risk"
    /\ fnCall' = "calculate_risk"
    /\ fnRet' = CalculateRisk(fnArgs.finality, fnArgs.network_health,
                              fnArgs.consensus_ratio)
    /\ UNCHANGED fnArgs
    /\ UNCHANGED nonFnVars

CallIsSafe ==
    /\ fnCall = "none"
    /\ fnArgs.of = "is_safe"
    /\ fnCall' = "is_safe"
    /\ fnRet' = IsSafe(fnArgs.result)
    /\ UNCHANGED fnArgs
    /\ UNCHANGED nonFnVars

InitScoring == ScoringInit /\ RpcIdle /\ CfgIdle /\ MonIdle /\ EngIdle /\ FanIdle /\ SvcIdle /\ ProgIdle
        /\ WsIdle /\ LockIdle

NextScoring ==
    \/ CallDetermineFinalityLevel
    \/ CallCheckFinality
    \/ CallCalculateRisk
    \/ CallIsSafe

SpecScoring == InitScoring /\ [][NextScoring]_vars

\* check_transaction_success: meta.map(|m| m.err.is_none()).unwrap_or(false)
CheckTransactionSuccess(tx) == tx.meta = "ok"

\* parsed_tx of verify_transaction (engine.rs:62-79): Some(parsed) for
\* Ok(Some(parsed)), None for Ok(None) and for Err.
ParsedTx(tx) ==
    LET program_ids == ExtractProgramIds(tx)
    IN  IF program_ids.kind = "Err"
        THEN None
        ELSE IF DetectBridgeType(program_ids.value) = "None"
        THEN None
        ELSE IF ParseTransaction(tx).kind = "Ok"
        THEN ParseTransaction(tx).value
        ELSE None

\* VerificationResult::with_parsed_transaction(parsed_tx): the result with
\* its decoded bridge metadata set.
WithParsedTransaction(result, parsed_tx) ==
    [f \in DOMAIN result \cup {"parsed_transaction"} |->
        IF f = "parsed_transaction" THEN parsed_tx ELSE result[f]]

\* determine_finality_level answering Fast when the slot query failed.
DetermineFinalityLevelDefaultingToFast(current_slot, tx_slot) ==
    IF current_slot.kind = "Err"
    THEN Ok("Fast")
    ELSE Ok(FinalityOf(current_slot.value, tx_slot))

\* determine_finality_level over what get_slot_with_consensus returned: `?`
\* hands an error on, a slot gives the band of its age.
DetermineFinalityLevel(current_slot, tx_slot) ==
    IF current_slot.kind = "Err"
    THEN current_slot
    ELSE Ok(FinalityOf(current_slot.value, tx_slot))

\* check_network_health letting every cached value pass.
CheckNetworkHealthWithoutGate(h) == Ok(h)

\* check_network_health over the value get_health returned.
CheckNetworkHealth(h) ==
    IF h = "Halted"
    THEN VerificationError("Network halted - cannot verify transactions")
    ELSE Ok(h)

\* Message bodies an endpoint may return: no bridge program; an attestation
\* of the token bridge; a bridge key with an instruction whose program index
\* lies outside the account keys.
TxBodies ==
    {RawTx(<<SYSTEM_PROGRAM>>, <<[program_id_index |-> 0, data |-> Bs58Text(<<2>>)]>>),
     RawTx(<<SYSTEM_PROGRAM, WORMHOLE_TOKEN_BRIDGE>>,
           <<[program_id_index |-> 1, data |-> Bs58Text(<<ATTEST_TOKEN>>)]>>),
     RawTx(<<WORMHOLE_TOKEN_BRIDGE>>,
           <<[program_id_index |-> 1, data |-> Bs58Text(<<ATTEST_TOKEN>>)]>>)}

\* Transactions an endpoint may return: the slot, the status metadata
\* (absent, without an error, with an error) and the message.
TxValues ==
    {[slot |-> slot, meta |-> meta, message |-> body.message,
      account_keys |-> body.account_keys, instructions |-> body.instructions] :
        slot \in {40}, meta \in {"absent", "ok", "err"}, body \in TxBodies}
Signatures == {"sigA", "sigB"}

\* verify_transaction returns `outcome`: inside verify_batch the outcome is
\* pushed to `results`.
Returns(outcome) ==
    /\ vpc' = "idle"
    /\ vHealth' = None
    /\ vTx' = None
    /\ lastOp' = "verify_transaction"
    /\ lastRet' = outcome
    /\ batch' = IF batch = None THEN None
                ELSE [batch EXCEPT !.todo = Tail(batch.todo),
                                   !.results = Append(batch.results, outcome)]

\* verify_transaction panics: the call returns nothing, and the unwinding
\* takes a surrounding verify_batch with it.
Panics(panic) ==
    /\ vpc' = "idle"
    /\ vHealth' = None
    /\ vTx' = None
    /\ lastOp' = "verify_transaction"
    /\ lastRet' = panic
    /\ batch' = None

\* verify_transaction, step 1: check_network_health reads the cached value.
VerifyStart(sig) ==
    /\ vpc = "idle"
    /\ IF batch = None THEN TRUE ELSE batch.todo # <<>> /\ sig = Head(batch.todo)
    /\ vSig' = sig
    /\ vQueries' = <<>>
    /\ vSlot' = None
    /\ LET network_health == CheckNetworkHealth(health)
       IN  IF network_health.kind = "Err"
           THEN Returns(network_health)
           ELSE /\ vpc' = "fetch"
                /\ vHealth' = network_health.value
                /\ lastOp' = "verify_transaction"
                /\ lastRet' = None
                /\ UNCHANGED <<vTx, batch>>
    /\ UNCHANGED nonEngVars

\* Step 2: fetch_transaction_with_consensus (the fan-out collected
\* `results`) and the first result taken with consensus_count = 1.
VerifyFetch(results) ==
    /\ vpc = "fetch"
    /\ vQueries' = Append(vQueries, "get_transaction")
    /\ IF HasMinimumResponses(threshold, results).kind = "Err"
       THEN Returns(HasMinimumResponses(threshold, results))
       ELSE IF results = <<>>
       THEN Returns(ConsensusFailure(0, threshold))
       ELSE /\ vpc' = "check"
            /\ vTx' = results[1]
            /\ lastOp' = "verify_transaction"
            /\ lastRet' = None
            /\ UNCHANGED <<vHealth, batch>>
    /\ UNCHANGED <<vSig, vSlot>>
    /\ UNCHANGED nonEngVars

\* Step 2.5 to 3: parse_transaction, whose value only the log shows, then
\* check_transaction_success and the failed result.
VerifyCheck ==
    /\ vpc = "check"
    /\ IF ParseTransaction(vTx).kind = "Panic"
       THEN Panics(ParseTransaction(vTx))
       ELSE IF ~CheckTransactionSuccess(vTx)
       THEN Returns(WithParsedTransaction(FailedResult(vSig, vTx.slot, vHealth), None))
       ELSE /\ vpc' = "finality"
            /\ lastOp' = "verify_transaction"
            /\ lastRet' = None
            /\ UNCHANGED <<vHealth, vTx, batch>>
    /\ UNCHANGED <<vSig, vQueries, vSlot>>
    /\ UNCHANGED nonEngVars

\* Step 4 to 6: determine_finality_level (a slot query of its own over
\* `responses`), calculate_risk and the success result.
VerifyFinality(responses) ==
    /\ vpc = "finality"
    /\ vQueries' = Append(vQueries, "get_slot")
    /\ \E current_slot \in FindConsensus(threshold, responses) :
          /\ vSlot' = current_slot
          /\ LET finality == DetermineFinalityLevel(current_slot, vTx.slot)
             IN  IF finality.kind = "Err"
                 THEN Returns(finality)
                 ELSE LET risk == CalculateRisk(finality.value, vHealth,
                                               CalculateConsensusRatio(1, clients))
                      IN  Returns(WithParsedTransaction(
                                      SuccessResult(vSig, vTx.slot, finality.value,
                                                    vHealth, risk, 1),
                                      ParsedTx(vTx)))
    /\ UNCHANGED vSig
    /\ UNCHANGED nonEngVars

\* verify_batch(signatures): the loop calls verify_transaction for each.
VerifyBatch(signatures) ==
    /\ vpc = "idle"
    /\ batch = None
    /\ batch' = [kind |-> "batch", signatures |-> signatures,
                 todo |-> signatures, results |-> <<>>]
    /\ lastOp' = "verify_batch"
    /\ lastRet' = None
    /\ UNCHANGED <<vpc, vSig, vHealth, vTx, vQueries, vSlot>>
    /\ UNCHANGED nonEngVars

\* verify_batch returns `results`.
VerifyBatchReturn ==
    /\ vpc = "idle"
    /\ batch # None
    /\ batch.todo = <<>>
    /\ batch' = None
    /\ lastOp' = "verify_batch"
    /\ lastRet' = batch.results
    /\ UNCHANGED <<vpc, vSig, vHealth, vTx, vQueries, vSlot>>
    /\ UNCHANGED nonEngVars

InitMonitor == MonInit /\ RpcIdle /\ CfgIdle /\ EngIdle /\ FnIdle /\ FanIdle /\ SvcIdle /\ ProgIdle
        /\ WsIdle /\ LockIdle

NextMonitor ==
    \/ \E obs \in ObsInputs(now) : RecordObservation(obs)
    \/ CheckHealth
    \/ GetHealth
    \/ GetObservations
    \/ Tick

SpecMonitor == InitMonitor /\ [][NextMonitor]_vars

(***************************************************************************)
(* The engine beside the polling task of service/mod.rs                    *)
(***************************************************************************)
\* MultiRpcClient::new over two endpoints.
EngRpcInit ==
    /\ clients = 2
    /\ threshold \in 1..clients
    /\ settled = 0
    /\ slots = <<>>
    /\ slotOutcome = None
    /\ prevQuery = None

\* HealthMonitor::new(0, MaxRetentionSecs)
EngMonInit ==
    /\ stale_threshold_secs = 0
    /\ retention_seconds = MaxRetentionSecs
    /\ observations = NoObservations
    /\ health = "Healthy"
    /\ now = 0
    /\ lastOp = "new"
    /\ lastRet = None

\* health_check_cycle records SlotObservation::new(slot, "consensus").
CycleInputs(t) == {SlotObservation(slot, "consensus", t) : slot \in {100}}

\* The slot the endpoints answer the finality step with beside a batch
\* (SpecService lets them disagree).
EngineSlots == {105}

InitEngine == EngMonInit /\ EngRpcInit /\ CfgIdle /\ EngIdle /\ FnIdle /\ FanIdle /\ SvcIdle /\ ProgIdle
        /\ WsIdle /\ LockIdle

NextEngine ==
    \/ \E obs \in CycleInputs(now) : RecordObservation(obs)
    \/ CheckHealth
    \/ GetHealth
    \/ GetObservations
    \/ now < MaxEngineTime /\ Tick
    \/ \E sig \in Signatures : VerifyStart(sig) /\ UNCHANGED svcVars
    \/ \E results \in SeqsUpTo(TxValues, clients) :
          VerifyFetch(results) /\ UNCHANGED svcVars
    \/ VerifyCheck /\ UNCHANGED svcVars
    \/ \E responses \in SeqsUpTo(EngineSlots, clients) :
          VerifyFinality(responses) /\ UNCHANGED svcVars
    \/ \E signatures \in SeqsUpTo(Signatures, MaxBatch) :
          VerifyBatch(signatures) /\ UNCHANGED svcVars
    \/ VerifyBatchReturn /\ UNCHANGED svcVars

SpecEngine == InitEngine /\ [][NextEngine]_vars

(***************************************************************************)
(* service/mod.rs, api/rest.rs, api/websocket.rs: the running service      *)
(***************************************************************************)
\* No request has been handled yet.
NoRequest == [pc |-> "none", route |-> "none", payload |-> None, response |-> None]

\* AppError::InvalidSignature.into_response()
BadRequest == [status |-> 400, error |-> "Invalid transaction signature"]

\* AppError::Verification(e).into_response()
InternalServerError(e) == [status |-> 500, error |-> e]

\* VerifyResponse::from(result), sent as Json with status 200.
VerifyResponse(result) ==
    [status |-> 200,
     signature |-> Bs58Text(result.signature),
     verified |-> result.verified,
     slot |-> result.slot,
     risk_score |-> result.risk_score,
     finality_level |-> result.finality_level,
     network_health |-> result.network_health]

\* VerificationEvent::from(result)
VerificationEvent(result) ==
    [signature |-> Bs58Text(result.signature),
     verified |-> result.verified,
     slot |-> result.slot,
     risk_score |-> result.risk_score]

\* WsState::broadcast(event): tx.send(event), its error ignored.
Broadcast(feed, event) == Append(feed, event)

\* str::parse::<Signature> without the check of the decoded length.
ParseSignatureOfAnyLength(text) ==
    IF Bs58Decode(text).kind = "Err"
    THEN [kind |-> "Err", error |-> "Invalid"]
    ELSE Ok(Bs58Decode(text).value)

\* str::parse::<Signature>: the text must be base58 and decode to 64 bytes.
ParseSignature(text) ==
    IF Bs58Decode(text).kind = "Err"
    THEN [kind |-> "Err", error |-> "Invalid"]
    ELSE IF Len(Bs58Decode(text).value) # 64
    THEN [kind |-> "Err", error |-> "WrongSize"]
    ELSE Ok(Bs58Decode(text).value)

\* What the handler answers once verify_transaction has returned `outcome`
\* (rest.rs:93-99); a panic of the call takes the handler's task with it.
Answered(request, outcome) ==
    IF outcome.kind = "Panic"
    THEN [request EXCEPT !.pc = "panicked"]
    ELSE [request EXCEPT
            !.pc = "done",
            !.response = IF outcome.kind = "Ok"
                         THEN VerifyResponse(outcome)
                         ELSE InternalServerError(outcome)]

\* The handler after a step of its verify_transaction call.
AfterStep(request) ==
    /\ rest' = IF vpc' = "idle" THEN Answered(request, lastRet') ELSE request
    /\ UNCHANGED wsFeed

\* verify_transaction (POST /verify) and get_verification
\* (GET /verify/:signature): the same code over the signature text.
RestVerify(route, payload) ==
    /\ rest.pc \in {"none", "done", "panicked"}
    /\ vpc = "idle"
    /\ LET signature == ParseSignature(payload)
           request == [pc |-> "verifying", route |-> route, payload |-> payload,
                       response |-> None]
       IN  IF signature.kind = "Err"
           THEN /\ rest' = [request EXCEPT !.pc = "done", !.response = BadRequest]
                /\ UNCHANGED <<rpcVars, cfgVars, monVars, engVars, fnVars, fanVars,
                               wsFeed, progVars, wsVars, lockVars>>
           ELSE /\ VerifyStart(signature.value)
                /\ AfterStep(request)

\* The steps of the call the handler awaits.
RestFetch(results) == rest.pc = "verifying" /\ VerifyFetch(results) /\ AfterStep(rest)
RestCheck == rest.pc = "verifying" /\ VerifyCheck /\ AfterStep(rest)
RestFinality(responses) ==
    rest.pc = "verifying" /\ VerifyFinality(responses) /\ AfterStep(rest)

\* health_check_cycle calling check_health although the slot query failed.
HealthCheckCycleCheckingHealthOnError(responses) ==
    /\ slots' = responses
    /\ \E slot \in FindConsensus(threshold, responses) :
          /\ slotOutcome' = slot
          /\ lastOp' = "health_check_cycle"
          /\ IF slot.kind = "Err"
             THEN /\ lastRet' = slot
                  /\ health' = IF DOMAIN observations = {}
                               THEN health
                               ELSE DetectHealth(observations, stale_threshold_secs, now)
                  /\ UNCHANGED observations
             ELSE /\ observations' =
                        Recorded(observations,
                                 SlotObservation(slot.value, "consensus", now),
                                 retention_seconds, now)
                  /\ health' = IF DOMAIN observations' = {}
                               THEN health
                               ELSE DetectHealth(observations', stale_threshold_secs, now)
                  /\ lastRet' = Ok("unit")
    /\ UNCHANGED <<clients, threshold, settled, prevQuery>>
    /\ UNCHANGED <<stale_threshold_secs, retention_seconds, now>>
    /\ UNCHANGED <<cfgVars, engVars, fnVars, fanVars, svcVars, progVars, wsVars, lockVars>>

\* health_check_cycle over the slots the fan-out collected: the slot
\* consensus (`?` ends the cycle on an error), then record_observation of
\* the consensus slot under "consensus", then check_health.
HealthCheckCycle(responses) ==
    /\ slots' = responses
    /\ \E slot \in FindConsensus(threshold, responses) :
          /\ slotOutcome' = slot
          /\ lastOp' = "health_check_cycle"
          /\ IF slot.kind = "Err"
             THEN /\ lastRet' = slot
                  /\ UNCHANGED <<observations, health>>
             ELSE /\ observations' =
                        Recorded(observations,
                                 SlotObservation(slot.value, "consensus", now),
                                 retention_seconds, now)
                  /\ health' = IF DOMAIN observations' = {}
                               THEN health
                               ELSE DetectHealth(observations', stale_threshold_secs, now)
                  /\ lastRet' = Ok("unit")
    /\ UNCHANGED <<clients, threshold, settled, prevQuery>>
    /\ UNCHANGED <<stale_threshold_secs, retention_seconds, now>>
    /\ UNCHANGED <<cfgVars, engVars, fnVars, fanVars, svcVars, progVars, wsVars, lockVars>>

\* Signature texts a caller may send: not base58, empty, one byte short,
\* a signature, one byte long.
SignatureBytes(len, byte) == [i \in 1..len |-> byte]
RestPayloads ==
    {Bs58Invalid, Bs58Text(<<>>), Bs58Text(SignatureBytes(63, 1)),
     Bs58Text(SignatureBytes(64, 1)), Bs58Text(SignatureBytes(65, 1))}
RestRoutes == {"POST /verify", "GET /verify/:signature"}

\* VerificationService::new over a configuration that validate() accepted:
\* two endpoints, a threshold of 1 or 2.
SvcRpcInit ==
    /\ clients = 2
    /\ threshold \in 1..clients
    /\ settled = 0
    /\ slots = <<>>
    /\ slotOutcome = None
    /\ prevQuery = None

SvcMonInit ==
    /\ stale_threshold_secs = 0
    /\ retention_seconds \in 0..MaxRetentionSecs
    /\ observations = NoObservations
    /\ health = "Healthy"
    /\ now = 0
    /\ lastOp = "new"
    /\ lastRet = None

SvcInit ==
    /\ rest = NoRequest
    /\ wsFeed = <<>>

InitService ==
    SvcInit /\ SvcRpcInit /\ SvcMonInit /\ CfgIdle /\ EngIdle /\ FnIdle /\ FanIdle
        /\ ProgIdle
        /\ WsIdle /\ LockIdle

NextService ==
    \/ \E responses \in SeqsUpTo(MonSlots, clients) : HealthCheckCycle(responses)
    \/ now < MaxEngineTime /\ Tick
    \/ \E route \in RestRoutes, payload \in RestPayloads : RestVerify(route, payload)
    \/ \E results \in SeqsUpTo(TxValues, clients) : RestFetch(results)
    \/ RestCheck
    \/ \E responses \in SeqsUpTo(MonSlots, clients) : RestFinality(responses)

SpecService == InitService /\ [][NextService]_vars

(***************************************************************************)
(* api/websocket.rs: the broadcast channel and the sockets that read it    *)
(***************************************************************************)
\* broadcast::channel(100)
ChannelCapacity == 100

\* usize::next_power_of_two
RECURSIVE PowerOfTwoFrom(_, _)
PowerOfTwoFrom(p, n) == IF p >= n THEN p ELSE PowerOfTwoFrom(2 * p, n)

NextPowerOfTwo(n) == PowerOfTwoFrom(1, n)

\* The slots the channel allocates: tokio rounds the requested capacity up
\* to a power of two, a position being mapped to its slot by a bit mask.
BufferLen == NextPowerOfTwo(ChannelCapacity)

\* SendError(event), RecvError::Lagged(missed)
SendError(event) == [kind |-> "Err", error |-> "SendError", value |-> event]
Lagged(missed) == [kind |-> "Err", error |-> "Lagged", missed |-> missed]

\* tx.send(event) of a channel whose slots are never overwritten.
SendKeepingEveryValue(chan, rx_cnt, event) ==
    IF rx_cnt = 0
    THEN [channel |-> chan, result |-> SendError(event)]
    ELSE [channel |-> [buffer |-> Append(chan.buffer,
                                         [pos |-> chan.tail, val |-> event]),
                       tail |-> chan.tail + 1],
          result |-> Ok(rx_cnt)]

\* tx.send(event) with rx_cnt receivers alive: without a receiver the value
\* comes back in the error; otherwise it takes the slot of position tail,
\* which on a full buffer is the slot of the oldest value.
Send(chan, rx_cnt, event) ==
    IF rx_cnt = 0
    THEN [channel |-> chan, result |-> SendError(event)]
    ELSE LET kept == IF Len(chan.buffer) = BufferLen
                     THEN Tail(chan.buffer)
                     ELSE chan.buffer
         IN  [channel |-> [buffer |-> Append(kept,
                                             [pos |-> chan.tail, val |-> event]),
                           tail |-> chan.tail + 1],
              result |-> Ok(rx_cnt)]

\* rx.recv() of a receiver at position next < tail: the value at next, or
\* Lagged once that slot has been overwritten.
Recv(chan, next) ==
    IF Head(chan.buffer).pos > next
    THEN Lagged(Head(chan.buffer).pos - next)
    ELSE Ok(chan.buffer[next - Head(chan.buffer).pos + 1].val)

\* A slot gives up its value once every receiver that was to read it has
\* read it or was dropped: the slots before the position of the receiver
\* furthest behind are free.
Released(buffer, receivers) ==
    IF receivers = EmptyBag \/ buffer = <<>>
    THEN <<>>
    ELSE LET oldest == SetMin({rx.next : rx \in BagToSet(receivers)})
             free == IF oldest > Head(buffer).pos
                     THEN oldest - Head(buffer).pos
                     ELSE 0
         IN  SubSeq(buffer, free + 1, Len(buffer))

\* WsState::broadcast(event): `let _ = self.tx.send(event);`
WsStateBroadcast(event) ==
    /\ channel.tail < MaxBroadcasts
    /\ channel' = Send(channel, BagCardinality(sockets), event).channel
    /\ fnCall' = "broadcast"
    /\ fnArgs' = <<event>>
    /\ fnRet' = Ok("unit")
    /\ UNCHANGED sockets
    /\ UNCHANGED <<rpcVars, cfgVars, monVars, engVars, fanVars, svcVars, progVars,
                   lockVars>>

\* handle_socket up to the spawn of its tasks: state.tx.subscribe().
HandleSocket ==
    /\ BagCardinality(sockets) < MaxSockets
    /\ sockets' = sockets (+) SetToBag({[next |-> channel.tail]})
    /\ fnCall' = "handle_socket"
    /\ fnArgs' = <<>>
    /\ fnRet' = None
    /\ UNCHANGED channel
    /\ UNCHANGED <<rpcVars, cfgVars, monVars, engVars, fanVars, svcVars, progVars,
                   lockVars>>

\* One turn of send_task's loop for a socket whose receiver is rx:
\* rx.recv().await, then sender.send(json).await, which succeeds or not
\* (`delivered`). An error of either ends the task, and select! then closes
\* the connection.
SendTaskRecv(rx, delivered) ==
    /\ BagIn(rx, sockets)
    /\ rx.next < channel.tail
    /\ LET received == Recv(channel, rx.next)
       IN  /\ fnRet' = received
           /\ sockets' = IF received.kind = "Ok" /\ delivered
                         THEN (sockets (-) SetToBag({rx}))
                                  (+) SetToBag({[next |-> rx.next + 1]})
                         ELSE sockets (-) SetToBag({rx})
    /\ channel' = [channel EXCEPT !.buffer = Released(@, sockets')]
    /\ fnCall' = "recv"
    /\ fnArgs' = <<>>
    /\ UNCHANGED <<rpcVars, cfgVars, monVars, engVars, fanVars, svcVars, progVars,
                   lockVars>>

\* recv_task of a socket ends (a Close message, or the stream is over):
\* select! aborts send_task, which drops rx.
RecvTaskEnds(rx) ==
    /\ BagIn(rx, sockets)
    /\ sockets' = sockets (-) SetToBag({rx})
    /\ channel' = [channel EXCEPT !.buffer = Released(@, sockets')]
    /\ fnCall' = "close"
    /\ fnArgs' = <<>>
    /\ fnRet' = None
    /\ UNCHANGED <<rpcVars, cfgVars, monVars, engVars, fanVars, svcVars, progVars,
                   lockVars>>

\* The event a caller hands to broadcast.
WsEvents ==
    {[signature |-> "signature", verified |-> TRUE, slot |-> 100,
      risk_score |-> Num(0)]}

InitWebsocket ==
    WsIdle /\ RpcIdle /\ CfgIdle /\ MonIdle /\ EngIdle /\ FnIdle /\ FanIdle /\ SvcIdle
        /\ ProgIdle /\ LockIdle

NextWebsocket ==
    \/ \E event \in WsEvents : WsStateBroadcast(event)
    \/ HandleSocket
    \/ \E rx \in BagToSet(sockets), delivered \in BOOLEAN : SendTaskRecv(rx, delivered)
    \/ \E rx \in BagToSet(sockets) : RecvTaskEnds(rx)

SpecWebsocket == InitWebsocket /\ [][NextWebsocket]_vars

(***************************************************************************)
(* monitor/health.rs lock by lock: concurrent calls on the two RwLocks     *)
(***************************************************************************)
\* tokio's RwLock is fair: requests are served in the order they were made.
\* The request at the head of the queue is granted as soon as the lock
\* allows it: a write when nobody holds the lock, a read when no writer does.
RECURSIVE Granted(_)
Granted(lock) ==
    IF lock.queue = <<>>
    THEN lock
    ELSE LET head == Head(lock.queue)
         IN  IF head.mode = "write"
             THEN IF lock.writer = 0 /\ lock.readers = {}
                  THEN [lock EXCEPT !.writer = head.id, !.queue = Tail(@)]
                  ELSE lock
             ELSE IF lock.writer = 0
                  THEN Granted([lock EXCEPT !.readers = @ \cup {head.id},
                                            !.queue = Tail(@)])
                  ELSE lock

\* lock.read().await / lock.write().await of caller id: the request joins the
\* queue, and the caller goes on once it holds the lock.
Acquire(lock, id, mode) ==
    Granted([lock EXCEPT !.queue = Append(@, [id |-> id, mode |-> mode])])

\* The guard of caller id is dropped.
Release(lock, id) ==
    Granted([lock EXCEPT !.readers = @ \ {id},
                         !.writer = IF @ = id THEN 0 ELSE @])

Holds(lock, id) == id \in lock.readers \/ lock.writer = id
Waits(lock, id) == \E k \in DOMAIN lock.queue : lock.queue[k].id = id

\* Caller id is in call op at pc.
InCall(id, op, pc) == calls' = [calls EXCEPT ![id] = [op |-> op, pc |-> pc]]
Returned(id) == calls' = [calls EXCEPT ![id] = NoCall]

\* record_observation: self.observations.write().await ...
RecordObservationCalled(id) ==
    /\ calls[id] = NoCall
    /\ obsLock' = Acquire(obsLock, id, "write")
    /\ InCall(id, "record_observation", "insert")
    /\ UNCHANGED healthLock
    /\ UNCHANGED <<rpcVars, cfgVars, monVars, engVars, fnVars, fanVars, svcVars,
                   progVars, wsVars>>

\* ... then insert, cleanup_old_observations and the drop of the guard.
RecordObservationInserts(id) ==
    /\ calls[id] = [op |-> "record_observation", pc |-> "insert"]
    /\ obsLock.writer = id
    /\ obsLock' = Release(obsLock, id)
    /\ Returned(id)
    /\ UNCHANGED healthLock
    /\ UNCHANGED <<rpcVars, cfgVars, monVars, engVars, fnVars, fanVars, svcVars,
                   progVars, wsVars>>

\* check_health: self.observations.read().await ...
CheckHealthCalled(id) ==
    /\ calls[id] = NoCall
    /\ obsLock' = Acquire(obsLock, id, "read")
    /\ InCall(id, "check_health", "detect")
    /\ UNCHANGED healthLock
    /\ UNCHANGED <<rpcVars, cfgVars, monVars, engVars, fnVars, fanVars, svcVars,
                   progVars, wsVars>>

\* ... then the early return on an empty map, or detect_health and
\* self.health.write().await with the read guard still held ...
CheckHealthDetects(id, is_empty) ==
    /\ calls[id] = [op |-> "check_health", pc |-> "detect"]
    /\ id \in obsLock.readers
    /\ IF is_empty
       THEN /\ obsLock' = Release(obsLock, id)
            /\ Returned(id)
            /\ UNCHANGED healthLock
       ELSE /\ healthLock' = Acquire(healthLock, id, "write")
            /\ InCall(id, "check_health", "store")
            /\ UNCHANGED obsLock
    /\ UNCHANGED <<rpcVars, cfgVars, monVars, engVars, fnVars, fanVars, svcVars,
                   progVars, wsVars>>

\* check_health whose read guard outlives the call.
CheckHealthStoresKeepingReadGuard(id) ==
    /\ calls[id] = [op |-> "check_health", pc |-> "store"]
    /\ healthLock.writer = id
    /\ healthLock' = Release(healthLock, id)
    /\ Returned(id)
    /\ UNCHANGED obsLock
    /\ UNCHANGED <<rpcVars, cfgVars, monVars, engVars, fnVars, fanVars, svcVars,
                   progVars, wsVars>>

\* ... then the cache is written and both guards are dropped on return,
\* current_health first.
CheckHealthStores(id) ==
    /\ calls[id] = [op |-> "check_health", pc |-> "store"]
    /\ healthLock.writer = id
    /\ healthLock' = Release(healthLock, id)
    /\ obsLock' = Release(obsLock, id)
    /\ Returned(id)
    /\ UNCHANGED <<rpcVars, cfgVars, monVars, engVars, fnVars, fanVars, svcVars,
                   progVars, wsVars>>

\* get_health: self.health.read().await ...
GetHealthCalled(id) ==
    /\ calls[id] = NoCall
    /\ healthLock' = Acquire(healthLock, id, "read")
    /\ InCall(id, "get_health", "copy")
    /\ UNCHANGED obsLock
    /\ UNCHANGED <<rpcVars, cfgVars, monVars, engVars, fnVars, fanVars, svcVars,
                   progVars, wsVars>>

\* ... then the copy of the value and the drop of the guard.
GetHealthCopies(id) ==
    /\ calls[id] = [op |-> "get_health", pc |-> "copy"]
    /\ id \in healthLock.readers
    /\ healthLock' = Release(healthLock, id)
    /\ Returned(id)
    /\ UNCHANGED obsLock
    /\ UNCHANGED <<rpcVars, cfgVars, monVars, engVars, fnVars, fanVars, svcVars,
                   progVars, wsVars>>

\* get_observations: self.observations.read().await ...
GetObservationsCalled(id) ==
    /\ calls[id] = NoCall
    /\ obsLock' = Acquire(obsLock, id, "read")
    /\ InCall(id, "get_observations", "clone")
    /\ UNCHANGED healthLock
    /\ UNCHANGED <<rpcVars, cfgVars, monVars, engVars, fnVars, fanVars, svcVars,
                   progVars, wsVars>>

\* ... then the clone of the map and the drop of the guard.
GetObservationsClones(id) ==
    /\ calls[id] = [op |-> "get_observations", pc |-> "clone"]
    /\ id \in obsLock.readers
    /\ obsLock' = Release(obsLock, id)
    /\ Returned(id)
    /\ UNCHANGED healthLock
    /\ UNCHANGED <<rpcVars, cfgVars, monVars, engVars, fnVars, fanVars, svcVars,
                   progVars, wsVars>>

\* A step of a call in flight.
CallProceeds ==
    \E id \in 1..MaxCalls :
        \/ RecordObservationInserts(id)
        \/ \E is_empty \in BOOLEAN : CheckHealthDetects(id, is_empty)
        \/ CheckHealthStores(id)
        \/ GetHealthCopies(id)
        \/ GetObservationsClones(id)

InitLocks ==
    LockIdle /\ RpcIdle /\ CfgIdle /\ MonIdle /\ EngIdle /\ FnIdle /\ FanIdle /\ SvcIdle
        /\ ProgIdle /\ WsIdle

NextLocks ==
    \/ \E id \in 1..MaxCalls : RecordObservationCalled(id)
    \/ \E id \in 1..MaxCalls : CheckHealthCalled(id)
    \/ \E id \in 1..MaxCalls : GetHealthCalled(id)
    \/ \E id \in 1..MaxCalls : GetObservationsCalled(id)
    \/ CallProceeds

SpecLocks == InitLocks /\ [][NextLocks]_vars

(***************************************************************************)
(* staurox-program: the on-chain verification log                          *)
(***************************************************************************)
\* Length of VerificationLog.recent, and the modulus attest_verification
\* advances ring_buffer_head with.
RecentLen == 1000
HeadModulus == 100

\* CompactVerification::default()
DefaultVerification ==
    [signature |-> 0, slot |-> 0, verified |-> FALSE, risk_score |-> 0, timestamp |-> 0]

\* CompactVerification { signature, slot, verified, risk_score, timestamp }
CompactVerification(signature, slot, verified, risk_score, timestamp) ==
    [signature |-> signature, slot |-> slot, verified |-> verified,
     risk_score |-> risk_score, timestamp |-> timestamp]

\* ((log.ring_buffer_head + 1) % 100) as u16
NextHead(head) == ((head + 1) % HeadModulus) % 65536

\* initialize(ctx, bridge_program): the account is created and filled; bump
\* is ctx.bumps.verification_log.
Initialize(bridge_program, bump) ==
    /\ log = None
    /\ log' = [bridge_program |-> bridge_program,
               bump |-> bump,
               total_verifications |-> 0,
               successful |-> 0,
               failed |-> 0,
               ring_buffer_head |-> 0,
               recent |-> [i \in 0..(RecentLen - 1) |-> DefaultVerification]]
    /\ UNCHANGED attested
    /\ UNCHANGED <<rpcVars, cfgVars, monVars, engVars, fnVars, fanVars, svcVars,
                   wsVars, lockVars>>

\* attest_verification with the `failed` branch of lines 52-56 left out.
AttestVerificationNotCountingFailures(signature, slot, verified, risk_score, unix_timestamp) ==
    /\ log # None
    /\ Len(attested) < MaxAttestations
    /\ verified \/ log.failed < MaxFailedAttestations
    /\ LET verification ==
               CompactVerification(signature, slot, verified, risk_score, unix_timestamp)
           index == log.ring_buffer_head
       IN  /\ log' = [log EXCEPT
                        !.recent = [log.recent EXCEPT ![index] = verification],
                        !.ring_buffer_head = NextHead(log.ring_buffer_head),
                        !.total_verifications = log.total_verifications + 1,
                        !.successful = IF verified THEN log.successful + 1
                                       ELSE log.successful]
           /\ attested' = Append(attested, verification)
    /\ UNCHANGED <<rpcVars, cfgVars, monVars, engVars, fnVars, fanVars, svcVars,
                   wsVars, lockVars>>

\* attest_verification(ctx, signature, slot, verified, risk_score) at the
\* time clock.unix_timestamp.
AttestVerification(signature, slot, verified, risk_score, unix_timestamp) ==
    /\ log # None
    /\ Len(attested) < MaxAttestations
    /\ verified \/ log.failed < MaxFailedAttestations
    /\ LET verification ==
               CompactVerification(signature, slot, verified, risk_score, unix_timestamp)
           index == log.ring_buffer_head
       IN  /\ log' = [log EXCEPT
                        !.recent = [log.recent EXCEPT ![index] = verification],
                        !.ring_buffer_head = NextHead(log.ring_buffer_head),
                        !.total_verifications = log.total_verifications + 1,
                        !.successful = IF verified THEN log.successful + 1
                                       ELSE log.successful,
                        !.failed = IF verified THEN log.failed
                                   ELSE log.failed + 1]
           /\ attested' = Append(attested, verification)
    /\ UNCHANGED <<rpcVars, cfgVars, monVars, engVars, fnVars, fanVars, svcVars,
                   wsVars, lockVars>>

\* ctx.bumps.verification_log: the canonical bump of the account's address,
\* which the seeds ("verification-log", bridge_program) determine.
ProgramBump(bridge_program) ==
    IF bridge_program = WORMHOLE_TOKEN_BRIDGE THEN 255 ELSE 254

\* The bridge program the log is initialized for.
BridgePrograms == {WORMHOLE_TOKEN_BRIDGE}

\* The verification service attests each transaction once: the signature of
\* the n-th call is written n (the default record has signature 0).
ProgramSlots == {40}
RiskBytes == {51}
ClockValues == {7}

InitProgram ==
    ProgIdle /\ RpcIdle /\ CfgIdle /\ MonIdle /\ EngIdle /\ FnIdle /\ FanIdle /\ SvcIdle
        /\ WsIdle /\ LockIdle

NextProgram ==
    \/ \E bridge_program \in BridgePrograms :
          Initialize(bridge_program, ProgramBump(bridge_program))
    \/ \E slot \in ProgramSlots, verified \in BOOLEAN, risk_score \in RiskBytes,
          unix_timestamp \in ClockValues :
          AttestVerification(Len(attested) + 1, slot, verified, risk_score,
                             unix_timestamp)

SpecProgram == InitProgram /\ [][NextProgram]_vars

(***************************************************************************)
(* Claims                                                                  *)
(***************************************************************************)

\* C1: for every threshold T >= 1, when find_consensus (and so
\* get_slot_with_consensus) returns a value, at least T of the responses
\* equal it; every other call returns a ConsensusFailure and no value.
C1_ValueMeetsThreshold ==
    (threshold >= 1 /\ slotOutcome # None) =>
        \/ /\ slotOutcome.kind = "Ok"
           /\ Count(slots, slotOutcome.value) >= threshold
        \/ /\ slotOutcome.kind = "Err"
           /\ slotOutcome.error = "ConsensusFailure"
           /\ "value" \notin DOMAIN slotOutcome

\* C1 witness: a value returned at a threshold of two or more although
\* another endpoint reported a different slot.
C1_Witness ==
    /\ slotOutcome.kind = "Ok"
    /\ threshold >= 2
    /\ \E i \in 1..Len(slots) : slots[i] # slotOutcome.value

\* C2: find_consensus succeeds exactly when some value occurs at least
\* threshold times, which is when the highest occurrence count reaches the
\* threshold; the value returned has the highest count; it fails with fewer
\* than threshold responses and when no count reaches the threshold.
C2_SucceedsIffWinnerMeetsThreshold ==
    slotOutcome # None =>
        /\ slotOutcome.kind = "Ok" <=>
              \E i \in 1..Len(slots) : Count(slots, slots[i]) >= threshold
        /\ slotOutcome.kind = "Ok" =>
              \A i \in 1..Len(slots) :
                  Count(slots, slots[i]) <= Count(slots, slotOutcome.value)
        /\ Len(slots) < threshold => slotOutcome.kind = "Err"

\* C2 witness: enough endpoints answered, yet the call failed because the
\* most frequent value stayed below the threshold.
C2_Witness ==
    /\ slotOutcome.kind = "Err"
    /\ threshold >= 1
    /\ Len(slots) >= threshold

\* C3: find_consensus is deterministic and independent of the order of the
\* responses: two calls on the same multiset of responses return the same
\* outcome, also when two values tie for the highest count. Stated for the
\* thresholds a validated configuration has, 1 <= threshold <= clients.
C3_SameMultisetSameOutcome ==
    (1 <= threshold /\ threshold <= clients
        /\ slotOutcome # None /\ prevQuery # None
        /\ SameMultiset(prevQuery.responses, slots))
    => slotOutcome = prevQuery.outcome

\* The configurations C4 says are rejected.
C4_Rejected(cfg) ==
    \/ cfg.rpc.endpoints = <<>>
    \/ cfg.rpc.consensus_threshold = 0
    \/ cfg.rpc.consensus_threshold > Len(cfg.rpc.endpoints)
    \/ cfg.monitoring.health_check_interval_ms = 0

\* C4: validate rejects a configuration with no endpoint, a threshold of 0,
\* a threshold above the number of endpoints or an interval of 0;
\* VerificationService::new fails on each of them, so a constructed service
\* has 1 <= threshold <= source_count.
C4_InvalidConfigRejected ==
    /\ (validated # None /\ C4_Rejected(config)) => validated.kind = "Err"
    /\ (service # None /\ C4_Rejected(config)) => service.kind = "Err"
    /\ service.kind = "Ok" =>
          /\ 1 <= service.consensus_threshold
          /\ service.consensus_threshold <= service.client_count

\* C4 witness: new() refused a configuration whose threshold exceeds its
\* non-empty endpoint list.
C4_Witness ==
    /\ service.kind = "Err"
    /\ config.rpc.endpoints # <<>>
    /\ config.rpc.consensus_threshold > Len(config.rpc.endpoints)

\* C5: for every network and every non-empty endpoint list, the
\* configuration Config::custom builds passes validate() and holds the
\* given endpoints.
C5_CustomConfigIsValid ==
    (builtBy.kind = "custom" /\ builtBy.endpoints # <<>> /\ validated # None) =>
        /\ validated.kind = "Ok"
        /\ config.rpc.endpoints = builtBy.endpoints

\* C6 as claimed: detect_health returns Halted exactly when the map is empty
\* or the age of every observation exceeds stale_threshold_seconds.
C6_HaltedIffEveryAgeExceeds ==
    lastOp = "detect_health" =>
        (lastRet = "Halted" <=>
            \/ DOMAIN observations = {}
            \/ \A s \in DOMAIN observations :
                  now - observations[s].timestamp
                      > stale_threshold_secs * TicksPerSecond)

\* C6 as amended: detect_health returns Halted exactly when the map is empty
\* or every observation is at least stale_threshold_seconds + 1 full seconds
\* old (its age in whole seconds exceeds the threshold); otherwise the
\* result is not Halted.
C6_HaltedIffEveryWholeSecondAgeExceeds ==
    lastOp = "detect_health" =>
        (lastRet = "Halted" <=>
            \/ DOMAIN observations = {}
            \/ \A s \in DOMAIN observations :
                  now - observations[s].timestamp
                      >= (stale_threshold_secs + 1) * TicksPerSecond)

\* C6 witness: Halted returned for a map that is not empty.
C6_Witness ==
    /\ lastOp = "detect_health"
    /\ lastRet = "Halted"
    /\ DOMAIN observations # {}

\* C7: with at least one observation not stale, detect_health returns Forked
\* exactly when there are two or more distinct slots, max - min > 2 and more
\* than one slot group holds more than 30% of the sources; otherwise Healthy.
C7_ForkedIffSplit ==
    (lastOp = "detect_health"
        /\ \E s \in DOMAIN observations :
              ~IsStale(observations[s], stale_threshold_secs, now))
    => LET seen == {observations[s].slot : s \in DOMAIN observations}
           total == Cardinality(DOMAIN observations)
           Large(slot) ==
               100 * Cardinality({s \in DOMAIN observations :
                                     observations[s].slot = slot}) > 30 * total
           split == /\ \E a, b \in seen : a - b > 2
                    /\ \E a, b \in seen : a # b /\ Large(a) /\ Large(b)
       IN  /\ lastRet = IF split THEN "Forked" ELSE "Healthy"
           /\ (\A a, b \in seen : a - b <= 2) => lastRet = "Healthy"

\* C7 witness: two sources at slot 100 and two at slot 105 give Forked.
C7_Witness ==
    /\ lastOp = "detect_health"
    /\ lastRet = "Forked"
    /\ DOMAIN observations = DetSources
    /\ Cardinality({s \in DetSources : observations[s].slot = 100}) = 2
    /\ Cardinality({s \in DetSources : observations[s].slot = 105}) = 2

\* The map with obs stored under its source id.
C8_Stored(obs) ==
    [k \in DOMAIN observations \cup {obs.source} |->
        IF k = obs.source THEN obs ELSE observations[k]]

\* C8 as claimed: record_observation stores the observation and removes
\* exactly the entries with now - observed_at > retention_window; an entry
\* as old as the retention window is kept. Stated for a retention window
\* of one second or more.
C8_RemovesOlderThanRetention ==
    [][(lastOp' = "record_observation" /\ retention_seconds >= 1) =>
        \E obs \in ObsInputs(now) :
            LET stored == C8_Stored(obs)
                removed == {k \in DOMAIN stored :
                    now - stored[k].timestamp > retention_seconds * TicksPerSecond}
            IN  observations' = [k \in DOMAIN stored \ removed |-> stored[k]]]_vars

\* C8 as amended: record_observation stores the observation and removes
\* exactly the entries with now - observed_at >= retention_window, so an
\* entry as old as the retention window is removed and no remaining entry
\* is older than the retention window.
C8_RemovesAtRetention ==
    [][lastOp' = "record_observation" =>
        /\ \E obs \in ObsInputs(now) :
              LET stored == C8_Stored(obs)
                  removed == {k \in DOMAIN stored :
                      now - stored[k].timestamp >= retention_seconds * TicksPerSecond}
              IN  observations' = [k \in DOMAIN stored \ removed |-> stored[k]]
        /\ \A s \in DOMAIN observations' :
              now' - observations'[s].timestamp <= retention_seconds * TicksPerSecond]_vars

\* C8 witness: after a record_observation call the map holds two entries,
\* one of them one tick younger than the retention window.
C8_Witness ==
    /\ lastOp = "record_observation"
    /\ Cardinality(DOMAIN observations) = 2
    /\ \E s \in DOMAIN observations :
          now - observations[s].timestamp = retention_seconds * TicksPerSecond - 1

\* C9: every check_health call stores the value it returns in the cache,
\* whatever the observation map holds, the empty map included.
C9_CheckHealthCachesItsResult ==
    lastOp = "check_health" => health = lastRet

\* C10: the cached health changes only in check_health; get_health returns
\* the cached value and, like record_observation, get_observations,
\* verify_transaction and verify_batch, leaves it unchanged.
C10_OnlyCheckHealthWritesCache ==
    [][/\ health' # health => lastOp' = "check_health"
       /\ lastOp' = "get_health" => lastRet' = health /\ health' = health]_vars

\* C10 witness: get_health returns Halted, which an earlier check_health
\* stored.
C10_Witness ==
    /\ lastOp = "get_health"
    /\ lastRet = "Halted"
    /\ health = "Halted"

\* The error of the health gate.
C11_NetworkHalted == VerificationError("Network halted - cannot verify transactions")

\* C11: when verify_transaction starts while the cached health is Halted, it
\* fails at once with the halted-network error and has issued no fan-out:
\* neither the transaction fetch nor the slot query.
C11_HaltedGateQueriesNoSource ==
    [][(vpc = "idle" /\ lastOp' = "verify_transaction" /\ health = "Halted") =>
          /\ lastRet' = C11_NetworkHalted
          /\ vpc' = "idle"
          /\ vQueries' = <<>>]_vars

\* C11 witness: a call refused at the gate of a halted network.
C11_Witness ==
    /\ lastOp = "verify_transaction"
    /\ lastRet = C11_NetworkHalted
    /\ health = "Halted"
    /\ vQueries = <<>>
    /\ vpc = "idle"

\* C12: when the fetched transaction failed on-chain, verify_transaction
\* returns a normal result with verified = false, risk_score = 1.0,
\* finality_level = Fast and consensus_count = 0, and issues no slot query.
C12_FailedTransactionResult ==
    [][(vpc = "check" /\ vpc' # "check" /\ ~CheckTransactionSuccess(vTx)) =>
          /\ lastRet'.kind = "Ok"
          /\ lastRet'.verified = FALSE
          /\ lastRet'.risk_score = Num(1000000)
          /\ lastRet'.finality_level = "Fast"
          /\ lastRet'.consensus_count = 0
          /\ vpc' = "idle"
          /\ \A i \in 1..Len(vQueries') : vQueries'[i] # "get_slot"]_vars

\* The band C13 gives a slot age.
C13_Band(slot_age) ==
    IF slot_age <= 31 THEN "Fast" ELSE IF slot_age <= 63 THEN "Safe" ELSE "UltraSafe"

\* C13: the finality level is Fast for a slot age in [0,31], Safe in [32,63]
\* and UltraSafe from 64 on, the age being current_slot - tx_slot saturating
\* at 0; a transaction ahead of the consensus slot is Fast, and the level
\* never decreases as current_slot grows.
C13_FinalityBands ==
    fnCall \in {"determine_finality_level", "check_finality"} =>
        LET c == fnArgs.current_slot
            t == fnArgs.tx_slot
        IN  /\ fnRet = C13_Band(IF c >= t THEN c - t ELSE 0)
            /\ t > c => fnRet = "Fast"
            /\ \A later \in Slots :
                  later >= c =>
                      /\ FinalityRank(FinalityOf(later, t)) >= FinalityRank(fnRet)
                      /\ FinalityRank(CheckFinality(later, t)) >= FinalityRank(fnRet)

\* C13 witness: a slot age of exactly 32 gives Safe.
C13_Witness ==
    /\ fnCall = "determine_finality_level"
    /\ fnArgs.current_slot - fnArgs.tx_slot = 32
    /\ fnRet = "Safe"

\* The weights C14 names, in millionths.
C14_Weight(finality, network_health) ==
    (CASE finality = "UltraSafe" -> 10000 [] finality = "Safe" -> 50000
       [] finality = "Fast" -> 150000)
    + (CASE network_health = "Healthy" -> 0 [] network_health = "Forked" -> 300000
         [] network_health = "Halted" -> 500000)

\* C14: calculate_risk returns finality_weight + health_weight +
\* (1 - consensus_ratio) * 0.2 clamped to [0,1]; the result is within [0,1]
\* for every input; (UltraSafe, Healthy, 1.0) gives less than 0.1 and
\* (Fast, Forked, 0.75) more than 0.3.
C14_RiskWithinUnitInterval ==
    fnCall = "calculate_risk" =>
        /\ fnRet.f64 = "num"
        /\ 0 <= fnRet.millionths
        /\ fnRet.millionths <= 1000000
        /\ fnArgs.consensus_ratio.f64 = "num" =>
              LET sum == C14_Weight(fnArgs.finality, fnArgs.network_health)
                         + (1000000 - fnArgs.consensus_ratio.millionths) \div 5
              IN  fnRet.millionths =
                      IF sum < 0 THEN 0 ELSE IF sum > 1000000 THEN 1000000 ELSE sum
        /\ (fnArgs.finality = "UltraSafe" /\ fnArgs.network_health = "Healthy"
                /\ fnArgs.consensus_ratio = Num(1000000)) =>
              fnRet.millionths < 100000
        /\ (fnArgs.finality = "Fast" /\ fnArgs.network_health = "Forked"
                /\ fnArgs.consensus_ratio = Num(750000)) =>
              fnRet.millionths > 300000

\* C15: is_safe is true exactly when verified is true, the health is Healthy,
\* risk_score < 0.2 and the finality level is Safe or UltraSafe; a result
\* with Forked or Halted health, or with Fast finality, is never safe.
C15_IsSafeIffAllFour ==
    fnCall = "is_safe" =>
        LET r == fnArgs.result
        IN  /\ fnRet = (/\ r.verified
                        /\ r.network_health = "Healthy"
                        /\ r.risk_score.f64 = "num"
                        /\ r.risk_score.millionths < 200000
                        /\ r.finality_level \in {"Safe", "UltraSafe"})
            /\ (r.network_health \in {"Forked", "Halted"} \/ r.finality_level = "Fast")
                  => fnRet = FALSE

\* C15 witness: a verified, healthy, riskless result is not safe at Fast
\* finality.
C15_Witness ==
    /\ fnCall = "is_safe"
    /\ fnRet = FALSE
    /\ fnArgs.result.verified
    /\ fnArgs.result.network_health = "Healthy"
    /\ fnArgs.result.risk_score = Num(0)
    /\ fnArgs.result.finality_level = "Fast"

\* C16: verify_batch returns one outcome per input signature, in input
\* order, each the outcome of verify_transaction for that signature; what a
\* verification ends with is pushed to the results and never ends the batch.
C16_OneOutcomePerSignature ==
    [][batch # None =>
          /\ (lastOp' = "verify_transaction" /\ vpc' = "idle") =>
                /\ batch' # None
                /\ batch'.results = Append(batch.results, lastRet')
                /\ lastRet'.kind \in {"Ok", "Err"}
          /\ batch' = None =>
                /\ lastOp' = "verify_batch"
                /\ lastRet' = batch.results
                /\ Len(batch.results) = Len(batch.signatures)
                /\ \A i \in 1..Len(batch.results) :
                      batch.results[i].kind = "Ok" =>
                          batch.results[i].signature = batch.signatures[i]]_vars

\* C17: for every account-key list and every instruction list,
\* parse_wormhole_instruction returns a value, a BridgeInstruction or an
\* error, also for a program index outside the account keys.
C17_DecoderReturnsValue ==
    fnCall = "parse_wormhole_instruction" => fnRet.kind \in {"Ok", "Err"}

\* The instructions of tx invoked by the bridge program, for a transaction
\* whose program indices all lie inside the account keys.
C18_BridgeOwned(tx) ==
    {i \in 1..Len(tx.instructions) :
        tx.account_keys[tx.instructions[i].program_id_index + 1] = WORMHOLE_TOKEN_BRIDGE}

\* C18: the first instruction invoked by the bridge program decides the
\* result: the result is that of the transaction holding this instruction
\* alone, and it is Unknown when the instruction's data does not decode or
\* is empty, whatever bridge instructions follow.
C18_FirstBridgeInstructionDecides ==
    (/\ fnCall = "parse_wormhole_instruction"
     /\ fnArgs.message = "Raw"
     /\ \A i \in 1..Len(fnArgs.instructions) :
           fnArgs.instructions[i].program_id_index < Len(fnArgs.account_keys)
     /\ C18_BridgeOwned(fnArgs) # {})
    => LET first == SetMin(C18_BridgeOwned(fnArgs))
           ix == fnArgs.instructions[first]
           decoded == Bs58Decode(ix.data)
       IN  /\ fnRet = ParseWormholeInstruction(RawTx(fnArgs.account_keys, <<ix>>))
           /\ (decoded.kind = "Err" \/ decoded.value = <<>>) => fnRet = Ok(Unknown)

\* The decoded data of a transaction whose one instruction is invoked by the
\* bridge program and decodes to at least one byte.
BridgeData == Bs58Decode(fnArgs.instructions[1].data).value

\* The call C19 and C20 are about: parse_wormhole_instruction on such a
\* transaction.
OneBridgeInstruction ==
    /\ fnCall = "parse_wormhole_instruction"
    /\ fnArgs.message = "Raw"
    /\ Len(fnArgs.instructions) = 1
    /\ fnArgs.instructions[1].program_id_index < Len(fnArgs.account_keys)
    /\ fnArgs.account_keys[fnArgs.instructions[1].program_id_index + 1]
          = WORMHOLE_TOKEN_BRIDGE
    /\ Bs58Decode(fnArgs.instructions[1].data).kind = "Ok"
    /\ BridgeData # <<>>

\* C19: for the opcodes 0x01, 0x04 and 0x05, data shorter than 55 bytes
\* gives Unknown; longer data gives TransferNative, TransferWrapped or
\* TransferWithPayload with amount the little-endian u64 at bytes 5..12,
\* target_chain the little-endian u16 at bytes 53..54 and, for the first
\* two, recipient the bytes 21..52; nothing else is in the result.
C19_TransferFields ==
    (OneBridgeInstruction /\ BridgeData[1] \in {1, 4, 5}) =>
        IF Len(BridgeData) < 55
        THEN fnRet = Ok(Unknown)
        ELSE /\ fnRet.kind = "Ok"
             /\ fnRet.value.kind = (CASE BridgeData[1] = 1 -> "TransferNative"
                                      [] BridgeData[1] = 4 -> "TransferWrapped"
                                      [] BridgeData[1] = 5 -> "TransferWithPayload")
             /\ \A j \in 0..7 : fnRet.value.amount[8 - j] = BridgeData[5 + j + 1]
             /\ fnRet.value.target_chain = BridgeData[53 + 1] + 256 * BridgeData[54 + 1]
             /\ IF BridgeData[1] = 5
                THEN DOMAIN fnRet.value = {"kind", "amount", "target_chain"}
                ELSE /\ DOMAIN fnRet.value =
                            {"kind", "amount", "target_chain", "recipient"}
                     /\ fnRet.value.recipient = [k \in 1..32 |-> BridgeData[21 + k]]

\* C19 witness: a transfer with payload decoded from exactly 55 bytes.
C19_Witness ==
    /\ OneBridgeInstruction
    /\ Len(BridgeData) = 55
    /\ fnRet.kind = "Ok"
    /\ fnRet.value.kind = "TransferWithPayload"

\* C20: the first byte alone selects the result for the other opcodes: 0x02
\* AttestToken, 0x03 and 0x07 CompleteTransfer with is_native false and true
\* and an empty metadata placeholder, 0x09 and 0x0a WrappedTokenOperation
\* "CreateWrapped" and "CompleteWrapped", 0x0d CompleteTransferWithPayload,
\* every opcode outside {1, 2, 3, 4, 5, 7, 9, 10, 13} Unknown.
C20_DispatchOnFirstByte ==
    (OneBridgeInstruction /\ BridgeData[1] \notin {1, 4, 5}) =>
        fnRet = Ok(CASE BridgeData[1] = 2 -> [kind |-> "AttestToken"]
                     [] BridgeData[1] = 3 ->
                          [kind |-> "CompleteTransfer", vaa_hash |-> <<>>,
                           is_native |-> FALSE]
                     [] BridgeData[1] = 7 ->
                          [kind |-> "CompleteTransfer", vaa_hash |-> <<>>,
                           is_native |-> TRUE]
                     [] BridgeData[1] = 9 ->
                          [kind |-> "WrappedTokenOperation",
                           operation_type |-> "CreateWrapped"]
                     [] BridgeData[1] = 10 ->
                          [kind |-> "WrappedTokenOperation",
                           operation_type |-> "CompleteWrapped"]
                     [] BridgeData[1] = 13 -> [kind |-> "CompleteTransferWithPayload"]
                     [] OTHER -> Unknown)

\* C20 witness: opcode 0x07 followed by further bytes gives a native
\* CompleteTransfer.
C20_Witness ==
    /\ OneBridgeInstruction
    /\ BridgeData[1] = 7
    /\ Len(BridgeData) > 1
    /\ fnRet = Ok([kind |-> "CompleteTransfer", vaa_hash |-> <<>>, is_native |-> TRUE])

\* The values of the tasks that ended with a result, in client order.
C21_Answers ==
    LET answered == SelectSeq(tasks, LAMBDA t : t.state = "ok")
    IN  [k \in 1..Len(answered) |-> answered[k].value]

\* C21: when the fan-out has returned, whichever tasks failed or aborted,
\* `results` holds exactly the values of the clients that succeeded, one
\* each and in client order; an error of the query is a ConsensusFailure
\* with too few responses, and the query succeeds whenever some value was
\* answered by at least threshold (and at least one) clients.
C21_FanoutCollectsSuccesses ==
    fanQuery.outcome # None =>
        /\ slots = C21_Answers
        /\ fanQuery.outcome.kind = "Err" =>
              /\ fanQuery.outcome.error = "ConsensusFailure"
              /\ fanQuery.outcome.required = threshold
              /\ fanQuery.outcome.responses <= Len(C21_Answers)
              /\ \/ fanQuery.outcome.responses < threshold
                 \/ fanQuery.outcome.responses = 0
        /\ (\E v \in Range(C21_Answers) :
               Count(C21_Answers, v) >= threshold) => fanQuery.outcome.kind = "Ok"

\* C21 witness: a fan-out that returned a value although one task failed
\* and another aborted.
C21_Witness ==
    /\ fanQuery.outcome # None
    /\ fanQuery.outcome.kind = "Ok"
    /\ \E i, j, k \in 1..Len(tasks) :
          tasks[i] = Failed /\ tasks[j] = Aborted /\ tasks[k].state = "ok"
    /\ Len(slots) = 1

\* A transaction fetch that has returned.
C22_FetchReturned == fanQuery.query = "get_transaction" /\ fanQuery.outcome # None

\* C22 as stated: fetch_transaction_with_consensus succeeds exactly when the
\* number of sources that returned the transaction is >= threshold, with the
\* first collected result whatever the others returned, and fails with
\* ConsensusFailure{number of responses, threshold} below the threshold.
C22_SucceedsIffThresholdAnswered ==
    C22_FetchReturned =>
        /\ fanQuery.outcome.kind = "Ok" <=> Len(slots) >= threshold
        /\ fanQuery.outcome.kind = "Ok" => fanQuery.outcome = Ok(slots[1])
        /\ Len(slots) < threshold =>
              fanQuery.outcome = ConsensusFailure(Len(slots), threshold)

\* C22 amended: it succeeds exactly when at least threshold sources and at
\* least one source returned the transaction, with the first collected
\* result whatever the others returned; otherwise it fails with
\* ConsensusFailure{number of responses, threshold}.
C22_SucceedsIffThresholdAndOneAnswered ==
    C22_FetchReturned =>
        /\ fanQuery.outcome.kind = "Ok" <=> (Len(slots) >= threshold /\ Len(slots) >= 1)
        /\ fanQuery.outcome.kind = "Ok" => fanQuery.outcome = Ok(slots[1])
        /\ fanQuery.outcome.kind # "Ok" =>
              fanQuery.outcome = ConsensusFailure(Len(slots), threshold)

\* C22 witness: two sources returned different contents under threshold 2
\* and the fetch returned the first of them.
C22_Witness ==
    /\ C22_FetchReturned
    /\ threshold = 2
    /\ slots = <<"txA", "txB">>
    /\ fanQuery.outcome = Ok("txA")

\* Every task of the running fan-out has ended.
C29_AllSettled ==
    /\ fanQuery # NoQuery
    /\ \A i \in 1..Len(tasks) : tasks[i] # Running

\* C29: a query has returned only when every task of its fan-out has ended
\* (a client that never answers keeps it from returning, whatever the others
\* answered), and once every task has ended the query returns.
C29_ReturnsOnlyAfterEverySourceSettled ==
    /\ [](fanQuery.outcome # None => C29_AllSettled)
    /\ (C29_AllSettled ~> fanQuery.outcome # None)

\* C29 witness: the first client has not answered, the two others have
\* answered the same value under threshold 2, and the query still waits on
\* the first handle.
C29_Witness ==
    /\ clients = 3
    /\ threshold = 2
    /\ fanQuery.query = "get_slot"
    /\ fanQuery.outcome = None
    /\ tasks = <<Running, Succeeded(100), Succeeded(100)>>
    /\ settled = 0

\* The attestations that the log should still hold: the most recent
\* min(n, RecentLen) of the n made.
C26_Retained ==
    {k \in 1..Len(attested) : k > Len(attested) - RecentLen}

\* C26: ring_buffer_head ranges over 0..999 and, after any number of
\* attest_verification calls, `recent` holds the record of each of the most
\* recent min(n, 1000) attestations: a record is overwritten only once 1000
\* newer ones have been written.
C26_RingHoldsLastThousand ==
    log # None =>
        /\ log.ring_buffer_head \in 0..(RecentLen - 1)
        /\ \A k \in C26_Retained :
              \E i \in 0..(RecentLen - 1) : log.recent[i] = attested[k]

\* C27: when the fetched transaction failed on-chain and the bridge decode
\* had produced metadata for it, the verified = false result that
\* verify_transaction returns carries that metadata.
C27_FailedResultCarriesMetadata ==
    [][(vpc = "check" /\ vpc' = "idle" /\ ~CheckTransactionSuccess(vTx)
            /\ ParsedTx(vTx) # None) =>
          /\ lastRet'.kind = "Ok"
          /\ lastRet'.verified = FALSE
          /\ lastRet'.parsed_transaction = ParsedTx(vTx)]_vars

\* C28: a verification that reached the finality step (the transaction was
\* fetched and had succeeded on-chain) and whose slot query failed returns
\* that ConsensusFailure and no result; a result with verified = true is
\* returned only by a call whose transaction fetch and whose later slot
\* query both succeeded.
C28_SlotQueryFailureFailsVerification ==
    (lastOp = "verify_transaction" /\ vpc = "idle") =>
        /\ (vSlot # None /\ vSlot.kind = "Err") =>
              /\ lastRet = vSlot
              /\ lastRet.error = "ConsensusFailure"
        /\ (lastRet.kind = "Ok" /\ lastRet.verified) =>
              /\ vQueries = <<"get_transaction", "get_slot">>
              /\ vSlot # None
              /\ vSlot.kind = "Ok"

\* C28 witness: a call that fetched a successful transaction and then
\* failed on the slot query.
C28_Witness ==
    /\ lastOp = "verify_transaction"
    /\ vpc = "idle"
    /\ vQueries = <<"get_transaction", "get_slot">>
    /\ vSlot # None
    /\ vSlot.kind = "Err"
    /\ lastRet = vSlot

\* C23: a poll tick of the running service whose slot query fails while
\* every recorded observation is older than stale_threshold_seconds leaves
\* the cached health Halted, so that verify_transaction calls made after it
\* are refused at the health gate.
C23_StalePollSetsHalted ==
    [][(lastOp' = "health_check_cycle" /\ slotOutcome'.kind = "Err"
            /\ DOMAIN observations # {}
            /\ AllObservationsStale(observations, stale_threshold_secs, now)) =>
          health' = "Halted"]_vars

\* C24: every verification that completes with a VerificationResult is
\* followed by exactly one event {signature, verified, slot, risk_score} on
\* the feed, and a verification that ends in an error by none.
C24_OneEventPerCompletedVerification ==
    [][(lastOp' = "verify_transaction" /\ vpc' = "idle") =>
          IF lastRet'.kind = "Ok"
          THEN wsFeed' = Broadcast(wsFeed, VerificationEvent(lastRet'))
          ELSE wsFeed' = wsFeed]_vars

\* A signature text parses when it is base58 and stands for 64 bytes.
C25_IsSignatureText(text) ==
    /\ text.text = "base58"
    /\ Len(text.bytes) = 64

\* C25: a REST request whose signature text does not parse is answered with
\* the invalid-signature error (400) and nothing else happens: the engine
\* is not called (no read of the cached health, no fan-out), and a
\* verification only ever runs for a text that parses.
C25_InvalidSignatureRejectedFirst ==
    [][/\ (rest' # rest /\ ~C25_IsSignatureText(rest'.payload)) =>
             /\ rest'.pc = "done"
             /\ rest'.response = BadRequest
             /\ UNCHANGED <<engVars, monVars, rpcVars>>
       /\ vpc' # "idle" => C25_IsSignatureText(rest'.payload)]_vars

\* C25 witness: a text one byte short was rejected after an earlier
\* verification, whose queries are still the last ones issued.
C25_Witness ==
    /\ rest.pc = "done"
    /\ rest.payload = Bs58Text(SignatureBytes(63, 1))
    /\ rest.response = BadRequest
    /\ vpc = "idle"
    /\ vQueries = <<"get_transaction", "get_slot">>

\* The per-source observations of a poll tick at time t whose fan-out
\* collected `responses`.
C30_PerSource(responses, t) ==
    [i \in 1..Len(responses) |-> SlotObservation(responses[i], "source", t)]

\* C30: a poll tick whose sources answer in two groups, more than 2 slots
\* apart and each above 30% of the sources, records their per-source
\* observations and leaves the cached health Forked.
C30_SplitPollSetsForked ==
    [][(lastOp' = "health_check_cycle" /\ Len(slots') = clients
            /\ HasSignificantFork(C30_PerSource(slots', now))) =>
          /\ health' = "Forked"
          /\ Cardinality(DOMAIN observations') = clients]_vars


\* C40: after initialize and any sequence of attest_verification calls,
\* total_verifications = successful + failed and ring_buffer_head is a valid
\* index of `recent`; each attestation raises total_verifications by exactly
\* 1 and exactly one of successful (verified) or failed (not verified) by 1,
\* and bridge_program and bump never change.
C40_CountersStayConsistent ==
    [][(log' # None =>
           /\ log'.total_verifications = log'.successful + log'.failed
           /\ log'.ring_buffer_head \in DOMAIN log'.recent)
       /\ ((log # None /\ log' # None /\ log' # log) =>
             LET verified == attested'[Len(attested')].verified
             IN  /\ Len(attested') = Len(attested) + 1
                 /\ log'.total_verifications = log.total_verifications + 1
                 /\ log'.successful = log.successful + (IF verified THEN 1 ELSE 0)
                 /\ log'.failed = log.failed + (IF verified THEN 0 ELSE 1)
                 /\ log'.bridge_program = log.bridge_program
                 /\ log'.bump = log.bump)]_vars

\* A log that has taken a successful and a failed attestation and whose head
\* has wrapped.
C40_Witness ==
    /\ log # None
    /\ log.successful > 0
    /\ log.failed > 0
    /\ log.total_verifications > HeadModulus
    /\ log.ring_buffer_head = 1

\* A caller of WsState::broadcast is never made to wait (the model stops
\* calling after MaxBroadcasts events).
C31_NeverBlocks ==
    channel.tail < MaxBroadcasts =>
        ENABLED (\E event \in WsEvents : WsStateBroadcast(event))

\* What C31 says of a WsState::broadcast call when the channel holds at most
\* `bound` pending events: the call returns unit; with
\* no subscriber the event is dropped; the queue never exceeds `bound`; and
\* a subscriber more than `bound` events behind no longer gets the events it
\* missed.
C31_BroadcastStep(bound) ==
    (fnCall' = "broadcast" /\ vars' # vars) =>
       /\ fnRet' = Ok("unit")
       /\ sockets' = sockets
       /\ sockets = EmptyBag => (channel' = channel /\ channel'.buffer = <<>>)
       /\ sockets # EmptyBag => channel'.tail = channel.tail + 1
       /\ Len(channel'.buffer) <= bound
       /\ \A rx \in BagToSet(sockets) :
             /\ channel'.tail - rx.next <= bound =>
                   \E k \in DOMAIN channel'.buffer :
                       channel'.buffer[k].pos = rx.next
             /\ channel'.tail - rx.next > bound =>
                   \A k \in DOMAIN channel'.buffer :
                       channel'.buffer[k].pos > rx.next

\* C31 as stated: WsState::broadcast never blocks and never fails its
\* caller; with no subscriber the event is dropped, and the channel is
\* bounded at 100 pending events, so a subscriber that falls behind loses
\* events instead of delaying the producer or growing the queue.
C31_BroadcastBoundedAtCapacity ==
    []C31_NeverBlocks /\ [][C31_BroadcastStep(ChannelCapacity)]_vars

\* C31, amended: the same with the bound the channel really has, the
\* requested capacity rounded up to a power of two (128 pending events).
C31_BroadcastBoundedAtBufferLen ==
    []C31_NeverBlocks /\ [][C31_BroadcastStep(BufferLen)]_vars

\* A broadcast has just overwritten the oldest event a subscriber had not
\* read yet.
C31_Witness ==
    /\ fnCall = "broadcast"
    /\ Len(channel.buffer) = BufferLen
    /\ \E rx \in BagToSet(sockets) : channel.tail - rx.next > BufferLen

\* The instructions of tx that a known bridge program is invoked by.
C32_BridgeInvoked(tx) ==
    {i \in 1..Len(tx.instructions) :
        tx.account_keys[tx.instructions[i].program_id_index + 1]
            \in {WORMHOLE_TOKEN_BRIDGE, WORMHOLE_CORE}}

\* C32: parse_transaction reports "not a bridge transaction" exactly when
\* no instruction is invoked by a known bridge program (a bridge program
\* among the account keys is not enough), and a parsed transaction whose
\* instruction is Unknown only when a bridge program was invoked with an
\* unrecognised opcode or undecodable data.
C32_NoneIffNoBridgeInvoked ==
    (/\ fnCall = "parse_transaction"
     /\ fnArgs.message = "Raw"
     /\ \A i \in 1..Len(fnArgs.instructions) :
           fnArgs.instructions[i].program_id_index < Len(fnArgs.account_keys))
    => /\ fnRet.kind = "Ok"
       /\ (ToString(fnRet.value) = ToString("None"))
              <=> (C32_BridgeInvoked(fnArgs) = {})
       /\ (ToString(fnRet.value) # ToString("None")
              /\ fnRet.value.instruction = Unknown)
          => \E i \in C32_BridgeInvoked(fnArgs) :
                LET decoded == Bs58Decode(fnArgs.instructions[i].data)
                IN  \/ decoded.kind = "Err"
                    \/ decoded.value = <<>>
                    \/ Dispatch(decoded.value) = Ok(Unknown)

\* C33: the on-chain success check lets a fetched transaction through
\* exactly when its record carries no error: a record without an error, its
\* status metadata absent included, goes on to the finality and risk steps,
\* and only a record with an error yields the verified=false result.
C33_NoErrorMeansSuccess ==
    [][(vpc = "check" /\ vpc' # "check" /\ ParseTransaction(vTx).kind # "Panic") =>
          IF vTx.meta = "err"
          THEN vpc' = "idle" /\ lastRet'.kind = "Ok" /\ ~lastRet'.verified
          ELSE vpc' = "finality" /\ lastRet' = None]_vars

\* C34: in every verified=true result consensus_count is the number of
\* sources that returned the transaction: at least the threshold (the fetch
\* succeeded), at most the number of sources, and the risk score is the one
\* of the ratio consensus_count / source_count.
C34_ConsensusCountIsSourcesThatAnswered ==
    (lastOp = "verify_transaction" /\ lastRet.kind = "Ok" /\ lastRet.verified) =>
        /\ lastRet.consensus_count >= threshold
        /\ lastRet.consensus_count <= clients
        /\ lastRet.risk_score =
              CalculateRisk(lastRet.finality_level, lastRet.network_health,
                            Num((lastRet.consensus_count * 1000000) \div clients))

\* The observations that remain after the staleness check.
C35_Fresh(obs) ==
    [s \in {k \in DOMAIN obs : ~IsStale(obs[k], stale_threshold_secs, now)} |-> obs[s]]

\* C35: fork detection uses only the observations that remain after the
\* staleness check: with at least one fresh observation, the verdict is the
\* one of the fresh observations alone, so a stale observation, whatever
\* its slot, turns neither Healthy into Forked nor Forked into Healthy.
C35_StaleObservationsDoNotCount ==
    (lastOp = "detect_health" /\ DOMAIN C35_Fresh(observations) # {})
    => lastRet = IF HasSignificantFork(C35_Fresh(observations))
                 THEN "Forked" ELSE "Healthy"

\* C36: concurrent record_observation, check_health, get_health and
\* get_observations calls never deadlock on the two locks: while a call is
\* in flight some call can take a step; only check_health holds both locks,
\* with the observation read lock taken first; and a writer never waits
\* while it holds its lock, so that a reader waits on it for no longer than
\* its insert-and-prune or its cache update.
C36_LocksNeverDeadlock ==
    /\ (\E id \in 1..MaxCalls : calls[id] # NoCall) => ENABLED CallProceeds
    /\ \A id \in 1..MaxCalls :
          /\ (Holds(healthLock, id) \/ Waits(healthLock, id)) /\ Holds(obsLock, id)
                => calls[id].op = "check_health" /\ id \in obsLock.readers
          /\ ~(Holds(healthLock, id) /\ Waits(obsLock, id))
          /\ (obsLock.writer = id \/ healthLock.writer = id)
                => ~Waits(obsLock, id) /\ ~Waits(healthLock, id)

\* check_health holds the observation read lock and waits for the health
\* write lock behind a get_health, while a record_observation waits for the
\* observation lock.
C36_Witness ==
    \E c, g, r \in 1..MaxCalls :
        /\ calls[c] = [op |-> "check_health", pc |-> "store"]
        /\ c \in obsLock.readers
        /\ Waits(healthLock, c)
        /\ calls[g].op = "get_health"
        /\ g \in healthLock.readers
        /\ calls[r].op = "record_observation"
        /\ Waits(obsLock, r)

\* The polling loop can always run its next cycle.
C37_NextTickRuns ==
    ENABLED (\E responses \in SeqsUpTo(MonSlots, clients) : HealthCheckCycle(responses))

\* C37: the health-polling loop never stops on a failed cycle: when the
\* slot-consensus query of a tick fails, no observation is recorded,
\* check_health is not called, the observation map and the cached health
\* stay exactly as they were, and the next tick runs.
C37_FailedCycleChangesNothing ==
    /\ []C37_NextTickRuns
    /\ [][(lastOp' = "health_check_cycle" /\ slotOutcome'.kind = "Err") =>
             /\ observations' = observations
             /\ health' = health]_vars

\* A cycle has failed while the only observation is stale and the cache
\* still says Healthy.
C37_Witness ==
    /\ lastOp = "health_check_cycle"
    /\ slotOutcome.kind = "Err"
    /\ lastRet = slotOutcome
    /\ DOMAIN observations # {}
    /\ DetectHealth(observations, stale_threshold_secs, now) = "Halted"
    /\ health = "Healthy"

\* C38: verify_transaction reads network_health once, at the health gate;
\* the value is Healthy or Forked, it is kept while the call is in flight,
\* and every VerificationResult returned carries it, whatever check_health
\* has written to the cache in the meantime.
C38_ResultCarriesGateHealth ==
    [][/\ (vpc = "idle" /\ vpc' # "idle") =>
             vHealth' = health /\ vHealth' \in {"Healthy", "Forked"}
       /\ (vpc # "idle" /\ vpc' # "idle") => vHealth' = vHealth
       /\ (vpc # "idle" /\ vpc' = "idle" /\ lastRet'.kind = "Ok") =>
             lastRet'.network_health = vHealth]_vars

\* A verification has returned a verified result carrying Healthy after a
\* check_health made the cache Halted.
C38_Witness ==
    /\ lastOp = "verify_transaction"
    /\ lastRet.kind = "Ok"
    /\ lastRet.verified
    /\ lastRet.network_health = "Healthy"
    /\ health = "Halted"

\* C39: a new HealthMonitor caches Healthy over an empty observation map;
\* the cache keeps its value until a check_health call runs on a non-empty
\* map; and a verify_transaction call made while the cache says Healthy
\* passes the health gate and goes on to query the sources.
C39_HealthyUntilCheckedOnObservations ==
    /\ (health = "Healthy" /\ DOMAIN observations = {})
    /\ [][/\ health' # health =>
                (lastOp' = "check_health" /\ DOMAIN observations # {})
          /\ (vpc = "idle" /\ lastOp' = "verify_transaction" /\ health = "Healthy") =>
                (vpc' = "fetch" /\ vQueries' = <<>> /\ lastRet' = None)]_vars

\* The map is still empty, a check_health has answered Halted, the cache
\* says Healthy, and a verification has passed the gate.
C39_Witness ==
    /\ DOMAIN observations = {}
    /\ lastOp = "check_health"
    /\ lastRet = "Halted"
    /\ health = "Healthy"
    /\ vpc = "fetch"

====
